---- MODULE Spec2Model ----
(***************************************************************************)
(* A model of the Server Command Interface layer of python-devicecloud:     *)
(* devicecloud/sci.py (targets, the SCI envelope, send_sci, send_sci_async, *)
(* AsyncRequestProxy) and the parts of devicecloud/file_system_service.py   *)
(* that sit on top of it.                                                   *)
(*                                                                         *)
(* Text is modelled as a sequence of chunks (strings); Join gives the       *)
(* string itself.  A format string is cut at its replacement fields, so     *)
(* ' synchronous="{}"'.format(x) is <<" synchronous=\"", x, "\"">>.         *)
(* An HTTP body that is to be parsed as XML is a sequence of lexemes        *)
(* (start tag, end tag, empty-element tag, character data) and ParseXml     *)
(* builds the element tree from it as xml.etree.ElementTree does.           *)
(***************************************************************************)
EXTENDS Integers, Sequences, FiniteSets, TLC

VARIABLES
    py3,      \* TRUE when the interpreter is Python 3, FALSE for Python 2.7
    call,     \* the API call in progress/just finished, or NoCall
    proxy,    \* the AsyncRequestProxy the caller holds, or NoProxy
    hist,     \* what the transport has seen for that proxy (observation only)
    th,       \* per-thread position inside AsyncRequestProxy.completed
    dev,      \* the Device the caller holds and the cloud's record of it, or NoDevice
    dc        \* the DeviceCloud the caller holds, or NoDeviceCloud

vars == <<py3, call, proxy, hist, th, dev, dc>>

-----------------------------------------------------------------------------
(* Bounds of the model *)

\* longest target list passed to send_sci
MaxTargets == 2
\* number of reads of `completed` the transport log is kept for
MaxReads == 4
\* devices that answer one request
MaxDevices == 2
\* commands in one command block
MaxCommands == 2
\* largest retry count of a request
MaxRetries == 3
\* pages one iteration fetches at most
MaxPages == 3
\* API objects one DeviceCloud creates at most
MaxObjects == 6
\* number of threads sharing one AsyncRequestProxy
NumThreads == 2

-----------------------------------------------------------------------------
(* Generic helpers *)

RECURSIVE Join(_)
\* "".join(chunks)
Join(chunks) ==
    IF chunks = <<>> THEN "" ELSE Head(chunks) \o Join(Tail(chunks))

RECURSIVE Concat(_)
\* concatenation of a sequence of sequences
Concat(ss) ==
    IF ss = <<>> THEN <<>> ELSE Head(ss) \o Concat(Tail(ss))

Digits == <<"0", "1", "2", "3", "4", "5", "6", "7", "8", "9">>

IsDigit(c) == \E i \in 1..10 : Digits[i] = c

DigitVal(c) == (CHOOSE i \in 1..10 : Digits[i] = c) - 1

RECURSIVE IntToStr(_)
\* str(n) / "{0}".format(n) for an int n
IntToStr(n) ==
    IF n < 0 THEN "-" \o IntToStr(0 - n)
    ELSE IF n < 10 THEN Digits[n + 1]
    ELSE IntToStr(n \div 10) \o Digits[(n % 10) + 1]

\* F applied to the value of e, which is computed once
Bind(e, F(_)) == CHOOSE y \in {F(x) : x \in {e}} : TRUE

-----------------------------------------------------------------------------
(* Python values.  Every value is a record with a type tag `t`. *)

None == [t |-> "NoneType"]
PyBool(b) == [t |-> "bool", b |-> b]
PyInt(n) == [t |-> "int", n |-> n]
\* a text string (six.string_types), as chunks
PyStr(chunks) == [t |-> "str", s |-> chunks]
\* a byte string (six.binary_type), as chunks
PyBytes(chunks) == [t |-> "bytes", s |-> chunks]

\* v is None
IsNone(v) == v.t = "NoneType"

\* isinstance(v, six.string_types): str on Python 3, basestring on Python 2
\* (where the byte string is `str`)
IsStringType(v) == v.t = "str" \/ (~py3 /\ v.t = "bytes")
\* isinstance(v, six.binary_type): bytes on Python 3, str on Python 2
IsBinaryType(v) == v.t = "bytes"
\* isinstance(v, bool)
IsBool(v) == v.t = "bool"
\* isinstance(v, six.integer_types): bool is a subclass of int
IsIntegerType(v) == v.t = "int" \/ v.t = "bool"

\* "{}".format(v): str(v) for the value kinds the model passes to format.
\* On Python 3 a bytes object is formatted as its repr, b'...'.
FormatValue(v) ==
    CASE v.t = "str" -> v.s
      [] v.t = "bytes" -> IF py3 THEN <<"b'">> \o v.s \o <<"'">> ELSE v.s
      [] v.t = "int" -> <<IntToStr(v.n)>>
      [] v.t = "bool" -> <<IF v.b THEN "True" ELSE "False">>
      [] v.t = "NoneType" -> <<"None">>

-----------------------------------------------------------------------------
(* XML: lexemes of a body, the element tree, and the ElementTree queries *)

StartTag(tag, attrib) == [k |-> "start", tag |-> tag, attrib |-> attrib]
EndTag(tag) == [k |-> "end", tag |-> tag]
EmptyTag(tag, attrib) == [k |-> "empty", tag |-> tag, attrib |-> attrib]
\* character data, as chunks
CharData(chunks) == [k |-> "chars", s |-> chunks]

NoAttrib == <<>>

\* An Element: tag, attrib (sequence of <<name, value>>, the value as chunks),
\* text (chunks, <<>> is None), children.
Element(tag, attrib) ==
    [tag |-> tag, attrib |-> attrib, text |-> <<>>, children |-> <<>>]

IsSpace(c) == c \in {" ", "\n", "\t", "\r"}

AllSpace(chunks) == \A i \in 1..Len(chunks) : IsSpace(chunks[i])

\* The parser state: the stack of open elements (innermost last), the finished
\* root (a sequence of length 0 or 1) and whether the input is still well-formed.
ParserInit == [stack |-> <<>>, root |-> <<>>, ok |-> TRUE]

\* an element is closed: it becomes the root or the last child of its parent
CloseElement(ps, el) ==
    IF Len(ps.stack) = 0
    THEN IF ps.root = <<>> THEN [ps EXCEPT !.root = <<el>>]
                           ELSE [ps EXCEPT !.ok = FALSE]   \* junk after document element
    ELSE LET n == Len(ps.stack)
             parent == ps.stack[n]
         IN [ps EXCEPT !.stack[n] =
                [parent EXCEPT !.children = Append(parent.children, el)]]

ParseLexeme(ps, lx) ==
    IF ~ps.ok THEN ps
    ELSE CASE lx.k = "start" ->
                IF ps.root # <<>> THEN [ps EXCEPT !.ok = FALSE]
                ELSE [ps EXCEPT !.stack = Append(ps.stack, Element(lx.tag, lx.attrib))]
           [] lx.k = "empty" ->
                IF ps.root # <<>> THEN [ps EXCEPT !.ok = FALSE]
                ELSE CloseElement(ps, Element(lx.tag, lx.attrib))
           [] lx.k = "end" ->
                LET n == Len(ps.stack) IN
                IF n = 0 \/ ps.stack[n].tag # lx.tag
                THEN [ps EXCEPT !.ok = FALSE]                \* mismatched tag
                ELSE CloseElement([ps EXCEPT !.stack = SubSeq(ps.stack, 1, n - 1)],
                                  ps.stack[n])
           [] lx.k = "chars" ->
                LET n == Len(ps.stack) IN
                IF n = 0
                THEN IF AllSpace(lx.s) THEN ps ELSE [ps EXCEPT !.ok = FALSE]
                ELSE IF ps.stack[n].children = <<>>
                     THEN [ps EXCEPT !.stack[n].text = ps.stack[n].text \o lx.s]
                     ELSE ps                                \* tail of the last child

RECURSIVE ParseLexemes(_, _)
ParseLexemes(ps, body) ==
    IF body = <<>> THEN ps
    ELSE IF Len(body) = 1 THEN ParseLexeme(ps, body[1])
    ELSE LET half == Len(body) \div 2 IN
         Bind(ParseLexemes(ps, SubSeq(body, 1, half)),
              LAMBDA mid : ParseLexemes(mid, SubSeq(body, half + 1, Len(body))))

\* ET.fromstring(body): [ok |-> TRUE, root |-> element] or [ok |-> FALSE]
\* (xml.etree.ElementTree.ParseError)
ParseXml(body) ==
    LET ps == ParseLexemes(ParserInit, body) IN
    IF ps.ok /\ ps.stack = <<>> /\ ps.root # <<>>
    THEN [ok |-> TRUE, root |-> ps.root[1]]
    ELSE [ok |-> FALSE]

RECURSIVE Descendants(_)
\* every element below el, in document order (el itself excluded)
Descendants(el) ==
    Concat([i \in 1..Len(el.children) |->
               <<el.children[i]>> \o Descendants(el.children[i])])

\* el.find('.//tag'): the first descendant with that tag, as a sequence of
\* length 0 (None) or 1
FindDescendant(el, tag) ==
    LET ds == Descendants(el)
        hits == {i \in 1..Len(ds) : ds[i].tag = tag}
    IN IF hits = {} THEN <<>>
       ELSE <<ds[CHOOSE i \in hits : \A j \in hits : i <= j]>>

-----------------------------------------------------------------------------
(* devicecloud/sci.py: targets *)

DeviceTarget(device_id) == [t |-> "target", cls |-> "DeviceTarget", arg |-> device_id]
AllTarget == [t |-> "target", cls |-> "AllTarget", arg |-> None]
TagTarget(tag) == [t |-> "target", cls |-> "TagTarget", arg |-> tag]
GroupTarget(group) == [t |-> "target", cls |-> "GroupTarget", arg |-> group]

\* isinstance(v, TargetABC)
IsTargetABC(v) == v.t = "target"

\* t.to_xml()
to_xml(tg) ==
    CASE tg.cls = "DeviceTarget" -> <<"<device id=\"">> \o FormatValue(tg.arg) \o <<"\"/>">>
      [] tg.cls = "AllTarget" -> <<"<device id=\"all\"/>">>
      [] tg.cls = "TagTarget" -> <<"<device tag=\"">> \o FormatValue(tg.arg) \o <<"\"/>">>
      [] tg.cls = "GroupTarget" -> <<"<group path=\"">> \o FormatValue(tg.arg) \o <<"\">">>

\* a Python list
PyList(items) == [t |-> "list", items |-> items]

\* does iter(v) succeed?  Lists and strings are iterable, the other values
\* of the model (None, numbers, targets) are not.
IsIterable(v) == v.t \in {"list", "str", "bytes"}

\* the elements iter(v) yields: the items of a list, the characters of a string
IterItems(v) ==
    IF v.t = "list" THEN v.items
    ELSE [i \in 1..Len(v.s) |-> [t |-> v.t, s |-> <<v.s[i]>>]]

-----------------------------------------------------------------------------
(* devicecloud/sci.py: the envelope *)

Lit(s) == [lit |-> TRUE, s |-> s]
Field(name) == [lit |-> FALSE, s |-> name]

\* The source text of SCI_TEMPLATE, cut into literal pieces and replacement
\* fields; an indentation step (two spaces) and a newline are pieces of their own.
SCI_TEMPLATE_SOURCE ==
    << Lit("<sci_request version=\"1.0\">"), Lit("\n"),
       Lit("  "), Lit("<"), Field("operation"), Field("synchronous"), Field("cache"),
           Field("sync_timeout"), Field("allow_offline"), Field("wait_for_reconnect"),
           Lit(">"), Lit("\n"),
       Lit("  "), Lit("  "), Lit("<targets>"), Lit("\n"),
       Lit("  "), Lit("  "), Lit("  "), Field("targets"), Lit("\n"),
       Lit("  "), Lit("  "), Lit("</targets>"), Lit("\n"),
       Lit("  "), Lit("  "), Field("payload"), Lit("\n"),
       Lit("  "), Lit("</"), Field("operation"), Lit(">"), Lit("\n"),
       Lit("</sci_request>"), Lit("\n") >>

\* template.replace(old, ""), for an `old` that is a whole piece
Replace(template, old) ==
    SelectSeq(template, LAMBDA p : ~(p.lit /\ p.s = old))

SCI_TEMPLATE ==
    Replace(Replace(Replace(SCI_TEMPLATE_SOURCE, "  "), "\r"), "\n")

\* template.format(**kwargs): every field is replaced by kwargs[field]; a
\* keyword argument the template has no field for is ignored.
StrFormat(template, kwargs) ==
    Concat([i \in 1..Len(template) |->
               IF template[i].lit THEN <<template[i].s>>
               ELSE kwargs[template[i].s]])

OptionNames ==
    {"reply", "synchronous", "sync_timeout", "cache", "allow_offline",
     "wait_for_reconnect"}

\* str(v) of the Python value: "True" / "False"
BoolAttributeAsPyStr(name, v) ==
    <<" " \o name \o "=\"", IF v.b THEN "True" ELSE "False", "\"">>

\* ' name="{}"'.format('true' if v else 'false')
BoolAttribute(name, v) ==
    <<" " \o name \o "=\"", IF v.b THEN "true" ELSE "false", "\"">>

\* sci.py:176  `not sync_timeout is None or isinstance(sync_timeout, integer_types)`
\* parses as (not (sync_timeout is None)) or isinstance(...)
SyncTimeoutRejected(sync_timeout) ==
    (~IsNone(sync_timeout)) \/ IsIntegerType(sync_timeout)

\* The first argument check of send_sci that fails, in the order of the code,
\* or "ok".  o holds the six options.
SendSciArgumentError(target, payload, o) ==
    LET targets == IF IsIterable(target) THEN IterItems(target) ELSE <<target>> IN
    IF ~IsStringType(payload) /\ ~IsBinaryType(payload) THEN "payload"
    ELSE IF ~(\A i \in 1..Len(targets) : IsTargetABC(targets[i])) THEN "target"
    ELSE IF ~(IsNone(o.reply) \/ IsStringType(o.reply)) THEN "reply"
    ELSE IF ~(IsNone(o.synchronous) \/ IsBool(o.synchronous)) THEN "synchronous"
    ELSE IF SyncTimeoutRejected(o.sync_timeout) THEN "sync_timeout"
    ELSE IF ~(IsNone(o.cache) \/ IsBool(o.cache)) THEN "cache"
    ELSE IF ~(IsNone(o.allow_offline) \/ IsBool(o.allow_offline)) THEN "allow_offline"
    ELSE IF ~(IsNone(o.wait_for_reconnect) \/ IsBool(o.wait_for_reconnect))
         THEN "wait_for_reconnect"
    ELSE "ok"

\* full_request of send_sci, for arguments that pass the checks
SendSciFullRequest(operation, target, payload, o) ==
    LET targets == IF IsIterable(target) THEN IterItems(target) ELSE <<target>>
        targets_xml == Concat([i \in 1..Len(targets) |-> to_xml(targets[i])])
        reply_xml ==
            IF ~IsNone(o.reply) THEN <<" reply=\"">> \o FormatValue(o.reply) \o <<"\"">>
            ELSE <<>>
        synchronous_xml ==
            IF ~IsNone(o.synchronous) THEN BoolAttribute("synchronous", o.synchronous)
            ELSE <<>>
        sync_timeout_xml ==
            IF ~IsNone(o.sync_timeout)
            THEN <<" syncTimeout=\"">> \o FormatValue(o.sync_timeout) \o <<"\"">>
            ELSE <<>>
        cache_xml ==
            IF ~IsNone(o.cache) THEN BoolAttribute("cache", o.cache) ELSE <<>>
        allow_offline_xml ==
            IF ~IsNone(o.allow_offline) THEN BoolAttribute("allowOffline", o.allow_offline)
            ELSE <<>>
        wait_for_reconnect_xml ==
            IF ~IsNone(o.wait_for_reconnect)
            THEN BoolAttribute("waitForReconnect", o.wait_for_reconnect)
            ELSE <<>>
    IN StrFormat(SCI_TEMPLATE,
                 [operation |-> FormatValue(operation),
                  targets |-> targets_xml,
                  reply |-> reply_xml,
                  synchronous |-> synchronous_xml,
                  sync_timeout |-> sync_timeout_xml,
                  cache |-> cache_xml,
                  allow_offline |-> allow_offline_xml,
                  wait_for_reconnect |-> wait_for_reconnect_xml,
                  payload |-> FormatValue(payload)])

-----------------------------------------------------------------------------
(* The transport (DeviceCloudConnection) as this layer sees it: a request   *)
(* either returns a response with a body or raises DeviceCloudHttpException *)

Request(method, path, data) == [method |-> method, path |-> path, data |-> data]

HttpResponse(content) == [raises |-> FALSE, content |-> content]
HttpFailure == [raises |-> TRUE, content |-> <<>>]

\* What one call of send_sci does, given what the server answers to its POST:
\* the requests it hands to the transport, and how it ends.
send_sci(operation, target, payload, o, server) ==
    LET err == SendSciArgumentError(target, payload, o) IN
    IF err # "ok"
    THEN [outcome |-> "raised", exc |-> "TypeError", check |-> err,
          sent |-> <<>>, resp |-> HttpFailure]
    ELSE LET post == Request("POST", "/ws/sci",
                             SendSciFullRequest(operation, target, payload, o))
         IN IF server.raises
            THEN [outcome |-> "raised", exc |-> "DeviceCloudHttpException",
                  check |-> "ok", sent |-> <<post>>, resp |-> server]
            ELSE [outcome |-> "returned", exc |-> "", check |-> "ok",
                  sent |-> <<post>>, resp |-> server]

-----------------------------------------------------------------------------
(* Python helpers shared by sci.py and file_system_service.py *)

\* chunks with the white space at both ends removed
RECURSIVE StripLeft(_)
StripLeft(chunks) ==
    IF chunks # <<>> /\ IsSpace(Head(chunks)) THEN StripLeft(Tail(chunks)) ELSE chunks

RECURSIVE StripRight(_)
StripRight(chunks) ==
    IF chunks # <<>> /\ IsSpace(chunks[Len(chunks)])
    THEN StripRight(SubSeq(chunks, 1, Len(chunks) - 1)) ELSE chunks

RECURSIVE DecimalValue(_)
DecimalValue(digits) ==
    IF digits = <<>> THEN 0
    ELSE 10 * DecimalValue(SubSeq(digits, 1, Len(digits) - 1))
         + DigitVal(digits[Len(digits)])

\* int(text) for the text of an element, one character per chunk:
\* [ok |-> TRUE, n |-> value], or [ok |-> FALSE] when int() raises (TypeError for
\* None, ValueError for anything that is no integer literal)
PyIntOf(text) ==
    LET body == StripRight(StripLeft(text))
        signed == body # <<>> /\ Head(body) \in {"+", "-"}
        digits == IF signed THEN Tail(body) ELSE body
    IN IF text = <<>> \/ digits = <<>> \/ ~(\A i \in 1..Len(digits) : IsDigit(digits[i]))
       THEN [ok |-> FALSE, n |-> 0]
       ELSE [ok |-> TRUE,
             n |-> IF signed /\ Head(body) = "-" THEN 0 - DecimalValue(digits)
                   ELSE DecimalValue(digits)]

\* the dict is started afresh on every assignment
DictReset(d, k, v) == [n \in {k} |-> v]

\* d[k] = v on a dict (a function from keys to values)
DictSet(d, k, v) == [n \in DOMAIN d \cup {k} |-> IF n = k THEN v ELSE d[n]]

\* send_sci(..., **sci_options): an option that is not passed keeps its
\* default, None
BindOptions(kwargs) ==
    [n \in OptionNames |-> IF n \in DOMAIN kwargs THEN kwargs[n] ELSE None]

-----------------------------------------------------------------------------
(* xml.etree.ElementTree as devicecloud/file_system_service.py uses it *)

\* el.get(name): <<>> for None, <<value>> otherwise
ElementGet(el, name) ==
    LET hits == {i \in 1..Len(el.attrib) : el.attrib[i][1] = name} IN
    IF hits = {} THEN <<>> ELSE <<el.attrib[CHOOSE i \in hits : TRUE][2]>>

\* el.set(name, value)
ElementSet(el, name, value) ==
    IF \E i \in 1..Len(el.attrib) : el.attrib[i][1] = name
    THEN [el EXCEPT !.attrib = [i \in 1..Len(el.attrib) |->
                                   IF el.attrib[i][1] = name THEN <<name, value>>
                                   ELSE el.attrib[i]]]
    ELSE [el EXCEPT !.attrib = Append(el.attrib, <<name, value>>)]

\* ET.SubElement(parent, tag) with its text set
WithSubElement(parent, tag, text) ==
    [parent EXCEPT !.children = Append(parent.children, [Element(tag, NoAttrib) EXCEPT !.text = text])]

RECURSIVE FindAllPath(_, _)
\* el.findall('./a/b/...'): path is <<"a", "b", ...>>
FindAllPath(el, path) ==
    IF path = <<>> THEN <<el>>
    ELSE LET cs == SelectSeq(el.children, LAMBDA c : c.tag = Head(path)) IN
         Concat([i \in 1..Len(cs) |-> FindAllPath(cs[i], Tail(path))])

\* el.find('./a/b/...'): <<>> for None
FindPath(el, path) ==
    LET all == FindAllPath(el, path) IN
    IF all = <<>> THEN <<>> ELSE <<all[1]>>

\* The attribute names of the file system commands, in the sorted order in which
\* ET.tostring writes the attributes of an element (Python 2.7 to 3.7).
SortedAttributeNames == <<"hash", "length", "offset", "path", "truncate">>

SortedAttrib(el) ==
    Concat([i \in 1..Len(SortedAttributeNames) |->
               LET v == ElementGet(el, SortedAttributeNames[i]) IN
               IF v = <<>> THEN <<>> ELSE << <<SortedAttributeNames[i], v[1]>> >>])

RECURSIVE Serialize(_)
\* the text of ET.tostring(el), for names and values that need no escaping
Serialize(el) ==
    LET items == SortedAttrib(el)
        attrs == Concat([i \in 1..Len(items) |->
                            <<" " \o items[i][1] \o "=\"">> \o items[i][2] \o <<"\"">>])
    IN IF el.text = <<>> /\ el.children = <<>>
       THEN <<"<" \o el.tag>> \o attrs \o <<" />">>
       ELSE <<"<" \o el.tag>> \o attrs \o <<">">> \o el.text
            \o Concat([i \in 1..Len(el.children) |-> Serialize(el.children[i])])
            \o <<"</" \o el.tag \o ">">>

\* ET.tostring(el): a byte string
tostring(el) == PyBytes(Serialize(el))

-----------------------------------------------------------------------------
(* base64.b64encode *)

B64Alphabet ==
    << "A", "B", "C", "D", "E", "F", "G", "H", "I", "J", "K", "L", "M", "N", "O", "P",
       "Q", "R", "S", "T", "U", "V", "W", "X", "Y", "Z", "a", "b", "c", "d", "e", "f",
       "g", "h", "i", "j", "k", "l", "m", "n", "o", "p", "q", "r", "s", "t", "u", "v",
       "w", "x", "y", "z", "0", "1", "2", "3", "4", "5", "6", "7", "8", "9", "+", "/" >>

\* the byte values of the characters file data is made of in the model
AsciiCode == [h |-> 104, i |-> 105]

RECURSIVE B64Encode(_)
\* base64 of a sequence of byte values, one character per chunk
B64Encode(bytes) ==
    LET A(n) == B64Alphabet[n + 1] IN
    IF bytes = <<>> THEN <<>>
    ELSE IF Len(bytes) = 1
    THEN <<A(bytes[1] \div 4), A((bytes[1] % 4) * 16), "=", "=">>
    ELSE IF Len(bytes) = 2
    THEN <<A(bytes[1] \div 4), A((bytes[1] % 4) * 16 + bytes[2] \div 16),
           A((bytes[2] % 16) * 4), "=">>
    ELSE <<A(bytes[1] \div 4), A((bytes[1] % 4) * 16 + bytes[2] \div 16),
           A((bytes[2] % 16) * 4 + bytes[3] \div 64), A(bytes[3] % 64)>>
         \o B64Encode(SubSeq(bytes, 4, Len(bytes)))

\* base64.b64encode(data).decode('ascii') for a byte string of the model
b64encode(data) == B64Encode([i \in 1..Len(data.s) |-> AsciiCode[data.s[i]]])

-----------------------------------------------------------------------------
(* devicecloud/file_system_service.py *)

\* The result of a step that may raise: "ok" with a value, or the exception
Ok(value) == [outcome |-> "ok", exc |-> "", value |-> value]
Raised(exc) == [outcome |-> "raised", exc |-> exc, value |-> None]

ErrorInfo(errno, message) == [t |-> "ErrorInfo", errno |-> errno, message |-> message]

\* the error is not reported: the slot looks like a success without a value
ErrorTreeSwallowed(error) == Ok(None)

\* _parse_error_tree(error); ErrorInfo.__init__ does int(errno)
parse_error_tree(error) ==
    LET id == ElementGet(error, "id")
        errno == PyIntOf(IF id = <<>> THEN <<>> ELSE id[1])
        desc == FindPath(error, <<"desc">>)
        message == IF error.text # <<>> THEN PyStr(error.text)
                   ELSE IF desc # <<>> /\ desc[1].text # <<>> THEN PyStr(desc[1].text)
                   ELSE None
    IN IF id = <<>> THEN Raised("TypeError")
       ELSE IF ~errno.ok THEN Raised("ValueError")
       ELSE Ok(ErrorInfo(errno.n, message))

\* _parse_command_response(response)
parse_command_response(response) ==
    LET dom == ParseXml(response.content) IN
    IF dom.ok THEN Ok(dom.root) ELSE Raised("ResponseParseError")

\* bool(v) for the values of the model
Truthy(v) ==
    CASE v.t = "bool" -> v.b
      [] v.t = "NoneType" -> FALSE
      [] v.t = "int" -> v.n # 0
      [] OTHER -> v.s # <<>>

\* both arguments are accepted and file_data wins
PutBothGivenAccepted(file_data, server_file) == FALSE

\* file_system_service.py:425
PutBothGiven(file_data, server_file) == ~IsNone(file_data) /\ ~IsNone(server_file)

\* PutCommand(path, file_data, server_file, offset, truncate): the element tree
\* of the command, or the exception of the constructor
PutCommand(path, file_data, server_file, offset, truncate) ==
    LET el1 == ElementSet(Element("put_file", NoAttrib), "path", path.s)
        el2 == ElementSet(el1, "truncate", <<IF Truthy(truncate) THEN "true" ELSE "false">>)
        el3 == IF ~IsNone(offset) THEN ElementSet(el2, "offset", FormatValue(offset)) ELSE el2
    IN IF PutBothGiven(file_data, server_file) THEN Raised("FileSystemServiceException")
       ELSE IF ~IsNone(file_data)
       THEN IF ~IsBinaryType(file_data) THEN Raised("TypeError")
            ELSE Ok(WithSubElement(el3, "data", b64encode(file_data)))
       ELSE IF ~IsNone(server_file) THEN Ok(WithSubElement(el3, "file", server_file.s))
       ELSE Raised("FileSystemServiceException")

\* FileSystemServiceCommandBlock with its commands added, get_command_string()
CommandString(commands) ==
    tostring([Element("commands", NoAttrib) EXCEPT !.children = commands])

\* a device id as a dictionary key: device.get('id')
DeviceKey(device) ==
    LET id == ElementGet(device, "id") IN
    IF id = <<>> THEN None ELSE PyStr(id[1])

EmptyDict == [k \in {} |-> None]

-----------------------------------------------------------------------------
(* devicecloud/file_system_service.py: the four commands and their parsers *)

\* command_name of each command class
command_name ==
    [LsCommand |-> "ls", GetCommand |-> "get_file", PutCommand |-> "put_file",
     DeleteCommand |-> "rm"]

FILE_SYSTEM_COMMANDS == <<"LsCommand", "GetCommand", "PutCommand", "DeleteCommand">>

\* a command object: its class and its element tree
Command(cls, etree) == [cls |-> cls, etree |-> etree]

\* LsCommand(path, hash)
LsCommand(path, hash) ==
    ElementSet(ElementSet(Element("ls", NoAttrib), "path", path.s), "hash", hash.s)

\* GetCommand(path, offset, length)
GetCommand(path, offset, length) ==
    LET el1 == ElementSet(Element("get_file", NoAttrib), "path", path.s)
        el2 == IF ~IsNone(offset) THEN ElementSet(el1, "offset", FormatValue(offset)) ELSE el1
    IN IF ~IsNone(length) THEN ElementSet(el2, "length", FormatValue(length)) ELSE el2

\* DeleteCommand(path)
DeleteCommand(path) == ElementSet(Element("rm", NoAttrib), "path", path.s)

\* the character with a byte value
CharOf(n) == CHOOSE c \in DOMAIN AsciiCode : AsciiCode[c] = n

B64Index(c) == (CHOOSE i \in 1..64 : B64Alphabet[i] = c) - 1

IsB64Char(c) == c = "=" \/ \E i \in 1..64 : B64Alphabet[i] = c

RECURSIVE B64Decode(_)
\* the byte values of base64 text whose length is a multiple of four
B64Decode(cs) ==
    IF cs = <<>> THEN <<>>
    ELSE LET i1 == B64Index(cs[1])
             i2 == B64Index(cs[2])
             b1 == i1 * 4 + i2 \div 16
         IN IF cs[3] = "=" THEN <<b1>>
            ELSE LET i3 == B64Index(cs[3])
                     b2 == (i2 % 16) * 16 + i3 \div 4
                 IN IF cs[4] = "=" THEN <<b1, b2>>
                    ELSE <<b1, b2, (i3 % 4) * 64 + B64Index(cs[4])>>
                         \o B64Decode(SubSeq(cs, 5, Len(cs)))

\* base64.b64decode(six.b(text)): characters outside the alphabet are
\* discarded; what is left must come in groups of four
b64decode(text) ==
    LET cs == SelectSeq(text, IsB64Char)
        bytes == B64Decode(cs)
    IN IF Len(cs) % 4 # 0 \/ (cs # <<>> /\ (cs[1] = "=" \/ cs[2] = "="))
       THEN Raised(IF py3 THEN "binascii.Error" ELSE "TypeError")
       ELSE Ok(PyBytes([i \in 1..Len(bytes) |-> CharOf(bytes[i])]))

\* el.get(name) as a Python value
GetValue(el, name) ==
    LET v == ElementGet(el, name) IN IF v = <<>> THEN None ELSE PyStr(v[1])

\* int(el.get(name)): TypeError for None, ValueError for a non-number
IntAttribute(el, name) ==
    LET v == ElementGet(el, name)
        n == PyIntOf(IF v = <<>> THEN <<>> ELSE v[1])
    IN IF v = <<>> THEN Raised("TypeError")
       ELSE IF ~n.ok THEN Raised("ValueError")
       ELSE Ok(PyInt(n.n))

LsInfo(directories, files) == [t |-> "LsInfo", directories |-> directories, files |-> files]

\* FileInfo(fssapi, device_id, path, last_modified, size, hash, hash_type)
FileInfo(device_id, myfile, hash_type) ==
    LET last_modified == IntAttribute(myfile, "last_modified")
        size == IntAttribute(myfile, "size")
    IN IF last_modified.outcome = "raised" THEN last_modified
       ELSE IF size.outcome = "raised" THEN size
       ELSE Ok([t |-> "FileInfo", device_id |-> device_id, path |-> GetValue(myfile, "path"),
                last_modified |-> last_modified.value, size |-> size.value,
                hash |-> GetValue(myfile, "hash"), hash_type |-> hash_type])

\* DirectoryInfo(fssapi, device_id, path, last_modified)
DirectoryInfo(device_id, mydir) ==
    LET last_modified == IntAttribute(mydir, "last_modified") IN
    IF last_modified.outcome = "raised" THEN last_modified
    ELSE Ok([t |-> "DirectoryInfo", device_id |-> device_id,
             path |-> GetValue(mydir, "path"), last_modified |-> last_modified.value])

\* the first result of a list that raised, or the list of the values
AllOk(results) ==
    LET bad == {i \in 1..Len(results) : results[i].outcome = "raised"} IN
    IF bad # {} THEN results[CHOOSE i \in bad : \A j \in bad : i <= j]
    ELSE Ok([i \in 1..Len(results) |-> results[i].value])

\* tag.lower() for the tags of the model
Lower(tag) ==
    CASE tag = "LS" -> "ls"
      [] tag = "GET_FILE" -> "get_file"
      [] tag = "PUT_FILE" -> "put_file"
      [] tag = "RM" -> "rm"
      [] OTHER -> tag

\* the tag is compared after lower-casing, as send_command_block does
TagMismatchLowered(cls, tag) == Lower(tag) # command_name[cls]

\* response.tag != cls.command_name
TagMismatch(cls, tag) == tag # command_name[cls]

\* LsCommand.parse_response(response, device_id=device_id, fssapi=fssapi);
\* fssapi is TRUE when an API object is passed, FALSE for None
LsParseResponse(response, device_id, fssapi) ==
    LET error == FindPath(response, <<"error">>)
        hash_type == GetValue(response, "hash")
        myfiles == FindAllPath(response, <<"file">>)
        mydirs == FindAllPath(response, <<"dir">>)
        files == AllOk([i \in 1..Len(myfiles) |-> FileInfo(device_id, myfiles[i], hash_type)])
        dirs == AllOk([i \in 1..Len(mydirs) |-> DirectoryInfo(device_id, mydirs[i])])
    IN IF TagMismatch("LsCommand", response.tag) THEN Raised("ResponseParseError")
       ELSE IF ~fssapi THEN Raised("FileSystemServiceException")
       ELSE IF IsNone(device_id) THEN Raised("FileSystemServiceException")
       ELSE IF error # <<>> THEN parse_error_tree(error[1])
       ELSE IF files.outcome = "raised" THEN files
       ELSE IF dirs.outcome = "raised" THEN dirs
       ELSE Ok(LsInfo(dirs.value, files.value))

\* GetCommand.parse_response(response)
GetParseResponse(response) ==
    LET error == FindPath(response, <<"error">>)
        data == FindPath(response, <<"data">>)
    IN IF TagMismatch("GetCommand", response.tag) THEN Raised("ResponseParseError")
       ELSE IF error # <<>> THEN parse_error_tree(error[1])
       ELSE IF data = <<>> THEN Raised("AttributeError")
       ELSE IF data[1].text = <<>>
       THEN Raised(IF py3 THEN "AttributeError" ELSE "TypeError")
       ELSE b64decode(data[1].text)

\* PutCommand.parse_response(response) and DeleteCommand.parse_response(response)
EmptyParseResponse(cls, response) ==
    LET error == FindPath(response, <<"error">>) IN
    IF TagMismatch(cls, response.tag) THEN Raised("ResponseParseError")
    ELSE IF error # <<>> THEN parse_error_tree(error[1])
    ELSE Ok(None)

\* command_class.parse_response(response, fssapi=..., device_id=...);
\* `found` is <<>> when the caller passes None: response.tag fails
parse_response(cls, found, device_id, fssapi) ==
    IF found = <<>> THEN Raised("AttributeError")
    ELSE CASE cls = "LsCommand" -> LsParseResponse(found[1], device_id, fssapi)
           [] cls = "GetCommand" -> GetParseResponse(found[1])
           [] OTHER -> EmptyParseResponse(cls, found[1])

-----------------------------------------------------------------------------
(* devicecloud/file_system_service.py: FileSystemServiceAPI *)

\* how a call ended, what it returned and what it handed to the transport
Finished(r, sent) ==
    IF r.outcome = "raised"
    THEN [outcome |-> "raised", exc |-> r.exc, sent |-> sent, value |-> None]
    ELSE [outcome |-> "returned", exc |-> "", sent |-> sent, value |-> r.value]

\* the comparison of the tag is missing: every class parses every reply
EveryClass(tag) == FILE_SYSTEM_COMMANDS

\* the classes whose command_name is the lower-cased tag, in the order of
\* FILE_SYSTEM_COMMANDS
MatchingClasses(tag) ==
    SelectSeq(FILE_SYSTEM_COMMANDS, LAMBDA cls : command_name[cls] = Lower(tag))

\* the inner loops of send_command_block for one device: every child of
\* <commands> is parsed by each class that matches its tag
BlockResults(device, device_id) ==
    LET commands == FindPath(device, <<"commands">>)
        parsed == Concat([i \in 1..Len(commands[1].children) |->
                     LET command == commands[1].children[i]
                         classes == MatchingClasses(command.tag)
                     IN [j \in 1..Len(classes) |->
                            parse_response(classes[j], <<command>>, device_id, TRUE)]])
    IN IF commands = <<>> THEN Raised("TypeError")
       ELSE Bind(AllOk(parsed),
                 LAMBDA r : IF r.outcome = "raised" THEN r ELSE Ok(PyList(r.value)))

RECURSIVE BlockDevices(_, _)
\* the loop of send_command_block over the <device> elements
BlockDevices(devices, out) ==
    IF devices = <<>> THEN Ok(out)
    ELSE LET device == Head(devices) IN
         Bind(BlockResults(device, DeviceKey(device)),
              LAMBDA r : IF r.outcome = "raised" THEN r
                         ELSE Bind(DictSet(out, DeviceKey(device), r.value),
                                   LAMBDA d : BlockDevices(Tail(devices), d)))

\* the block is posted a second time when the reply cannot be parsed
PostCommandsRetried(target, etrees, server) ==
    Bind(send_sci(PyStr(<<"file_system">>), target, CommandString(etrees),
                  BindOptions(EmptyDict), server),
         LAMBDA sci :
            IF sci.outcome = "raised"
            THEN [outcome |-> "raised", exc |-> sci.exc, sent |-> sci.sent, value |-> None]
            ELSE Bind(parse_command_response(sci.resp),
                      LAMBDA root : [outcome |-> root.outcome, exc |-> root.exc,
                                     sent |-> IF root.outcome = "raised"
                                              THEN sci.sent \o sci.sent ELSE sci.sent,
                                     value |-> root.value]))

\* the request every operation starts with: the command block is posted and
\* the reply parsed
PostCommands(target, etrees, server) ==
    Bind(send_sci(PyStr(<<"file_system">>), target, CommandString(etrees),
                  BindOptions(EmptyDict), server),
         LAMBDA sci :
            IF sci.outcome = "raised"
            THEN [outcome |-> "raised", exc |-> sci.exc, sent |-> sci.sent, value |-> None]
            ELSE Bind(parse_command_response(sci.resp),
                      LAMBDA root : [outcome |-> root.outcome, exc |-> root.exc,
                                     sent |-> sci.sent, value |-> root.value]))

\* send_command_block(target, command_block); `commands` are the element trees
\* added to the block
send_command_block(target, commands, server) ==
    Bind(PostCommands(target, commands, server),
         LAMBDA root :
            IF root.outcome = "raised" THEN root
            ELSE Bind(FindAllPath(root.value, <<"file_system", "device">>),
                      LAMBDA devices :
                         Bind(BlockDevices(devices, EmptyDict),
                              LAMBDA out : Finished(out, root.sent))))

\* the loop stores a result under no device id and does not look at the devices
NoDeviceStored(cls, devices, out) == Ok(DictSet(out, None, None))

RECURSIVE CommandDevices(_, _, _)
\* the reply to the command is looked up and parsed before the <error> of the
\* device is
CommandsLookedUpFirst(cls, devices, out) ==
    IF devices = <<>> THEN Ok(out)
    ELSE LET device == Head(devices)
             error == FindPath(device, <<"error">>)
         IN Bind(Bind(FindPath(device, <<"commands", command_name[cls]>>),
                      LAMBDA found :
                         IF found = <<>> /\ error # <<>> THEN parse_error_tree(error[1])
                         ELSE parse_response(cls, found, DeviceKey(device), TRUE)),
                 LAMBDA r :
                    IF r.outcome = "raised" THEN r
                    ELSE Bind(DictSet(out, DeviceKey(device), r.value),
                              LAMBDA d : CommandDevices(cls, Tail(devices), d)))

\* the loop of list_files, get_file, put_file and delete_file over the <device>
\* elements
CommandDevices(cls, devices, out) ==
    IF devices = <<>> THEN Ok(out)
    ELSE LET device == Head(devices)
             error == FindPath(device, <<"error">>)
         IN Bind(IF error # <<>> THEN parse_error_tree(error[1])
                 ELSE Bind(FindPath(device, <<"commands", command_name[cls]>>),
                           LAMBDA found : parse_response(cls, found, DeviceKey(device), TRUE)),
                 LAMBDA r :
                    IF r.outcome = "raised" THEN r
                    ELSE Bind(DictSet(out, DeviceKey(device), r.value),
                              LAMBDA d : CommandDevices(cls, Tail(devices), d)))

\* the body shared by list_files, get_file, put_file and delete_file, once the
\* command is built
OneCommand(cls, target, etree, server) ==
    Bind(PostCommands(target, <<etree>>, server),
         LAMBDA root :
            IF root.outcome = "raised" THEN root
            ELSE Bind(FindAllPath(root.value, <<"file_system", "device">>),
                      LAMBDA devices :
                         Bind(CommandDevices(cls, devices, EmptyDict),
                              LAMBDA out : Finished(out, root.sent))))

\* list_files(target, path, hash)
list_files(target, path, hash, server) ==
    OneCommand("LsCommand", target, LsCommand(path, hash), server)

\* get_file(target, path, offset, length)
get_file(target, path, offset, length, server) ==
    OneCommand("GetCommand", target, GetCommand(path, offset, length), server)

\* delete_file(target, path)
delete_file(target, path, server) ==
    OneCommand("DeleteCommand", target, DeleteCommand(path), server)

\* put_file(target, path, file_data, server_file, offset, truncate)
put_file(target, path, file_data, server_file, offset, truncate, server) ==
    Bind(PutCommand(path, file_data, server_file, offset, truncate),
         LAMBDA cmd :
            IF cmd.outcome = "raised"
            THEN [outcome |-> "raised", exc |-> cmd.exc, sent |-> <<>>, value |-> None]
            ELSE OneCommand("PutCommand", target, cmd.value, server))

\* the comparison with the cutoff is not strict
ModifiedSinceOrAt(items, last_modified_cutoff) ==
    SelectSeq(items, LAMBDA item : item.last_modified.n >= last_modified_cutoff.n)

\* the items of a listing modified after the cutoff
ModifiedSince(items, last_modified_cutoff) ==
    SelectSeq(items, LAMBDA item : item.last_modified.n > last_modified_cutoff.n)

\* get_modified_items(target, path, last_modified_cutoff)
get_modified_items(target, path, last_modified_cutoff, server) ==
    Bind(list_files(target, path, PyStr(<<"any">>), server),
         LAMBDA file_list :
            IF file_list.outcome = "raised" THEN file_list
            ELSE [file_list EXCEPT !.value =
                     [device_id \in DOMAIN file_list.value |->
                         LET device_data == file_list.value[device_id] IN
                         IF device_data.t = "ErrorInfo" THEN device_data
                         ELSE LsInfo(ModifiedSince(device_data.directories,
                                                   last_modified_cutoff),
                                     ModifiedSince(device_data.files,
                                                   last_modified_cutoff))]])

\* A path is a sequence of chunks in which every separator is a chunk of its
\* own.  The index of the last separator, 0 when there is none.
LastSeparator(chunks, path_sep) ==
    LET hits == {i \in 1..Len(chunks) : chunks[i] = path_sep} IN
    IF hits = {} THEN 0 ELSE CHOOSE i \in hits : \A j \in hits : j <= i

\* the string comparison cur_file.path == path
SamePath(info_path, chunks) == info_path.t = "str" /\ Join(info_path.s) = Join(chunks)

\* exists(target, path, path_sep="/")
exists(target, path, server) ==
    LET path_sep == "/"
        stripped == IF path.s # <<>> /\ path.s[Len(path.s)] = path_sep
                    THEN SubSeq(path.s, 1, Len(path.s) - 1) ELSE path.s
        cut == LastSeparator(stripped, path_sep)
        par_dir == SubSeq(stripped, 1, cut - 1)
    IN IF cut = 0
       THEN [outcome |-> "raised", exc |-> "ValueError", sent |-> <<>>, value |-> None]
       ELSE Bind(list_files(target, PyStr(par_dir), PyStr(<<"any">>), server),
                 LAMBDA file_list :
                    IF file_list.outcome = "raised" THEN file_list
                    ELSE [file_list EXCEPT !.value =
                             [device_id \in DOMAIN file_list.value |->
                                 LET device_data == file_list.value[device_id] IN
                                 IF device_data.t = "ErrorInfo" THEN device_data
                                 ELSE PyBool(\/ \E i \in 1..Len(device_data.files) :
                                                   SamePath(device_data.files[i].path, stripped)
                                             \/ \E i \in 1..Len(device_data.directories) :
                                                   SamePath(device_data.directories[i].path,
                                                            stripped))]])

-----------------------------------------------------------------------------
(* The calls a caller makes.  `call` holds the call that has just finished:  *)
(* its arguments, how it ended, and the requests it handed to the transport. *)

NoCall == [op |-> "none"]
NoDevice == [exists |-> FALSE]
NoDeviceCloud == [exists |-> FALSE]
NoProxy == [exists |-> FALSE]
\* no GET issued, no complete reply seen, nothing stored, no read failed
NoHist == [gets |-> 0, first |-> <<>>, stores |-> 0, failed |-> FALSE]

Operations == {PyStr(<<"send_message">>), PyStr(<<"reboot">>)}

SingleTargets ==
    {DeviceTarget(PyStr(<<"DEV1">>)), AllTarget, TagTarget(PyStr(<<"tag1">>)),
     GroupTarget(PyStr(<<"grp1">>))}

\* values that are no targets: None, a number, a string
NonTargets == {None, PyInt(5), PyStr(<<"D", "1">>)}

ListItems == {DeviceTarget(PyStr(<<"DEV1">>)), GroupTarget(PyStr(<<"grp1">>)), PyInt(5)}

TargetLists ==
    {PyList(items) : items \in UNION {[1..n -> ListItems] : n \in 0..MaxTargets}}

TargetArgs == SingleTargets \cup NonTargets \cup TargetLists

Payloads == {PyStr(<<"<reset/>">>), PyBytes(<<"<reset/>">>), PyInt(7)}

BoolOptionValues == {None, PyBool(TRUE), PyBool(FALSE), PyInt(1)}

SciOptions ==
    [reply : {None, PyStr(<<"all">>), PyInt(1)},
     synchronous : BoolOptionValues,
     sync_timeout : {None, PyInt(30)},
     cache : BoolOptionValues,
     allow_offline : BoolOptionValues,
     wait_for_reconnect : BoolOptionValues]

\* what the server may answer to a POST at this layer
PostServers ==
    {HttpFailure,
     HttpResponse(<<StartTag("sci_reply", NoAttrib), EmptyTag("send_message", NoAttrib),
                    EndTag("sci_reply")>>)}

\* sci.send_sci(operation, target, payload, **o)
SendSci ==
    /\ call = NoCall
    /\ \E operation \in Operations, target \in TargetArgs, payload \in Payloads,
          o \in SciOptions, server \in PostServers :
          LET r == send_sci(operation, target, payload, o, server) IN
          call' = [op |-> "send_sci", operation |-> operation, target |-> target,
                   payload |-> payload, options |-> o, outcome |-> r.outcome,
                   exc |-> r.exc, sent |-> r.sent, value |-> r.resp]
    /\ UNCHANGED <<py3, dev, dc, proxy, hist, th>>

\* A device answers a put_file with an empty element, or with an error inside
\* it; Device Cloud answers for a device it cannot reach with an error in
\* place of the commands.
FssDevice(id, inner) ==
    <<StartTag("device", <<(<<"id", <<id>> >>)>>)>> \o inner \o <<EndTag("device")>>

FssCommands(inner) == <<StartTag("commands", NoAttrib)>> \o inner \o <<EndTag("commands")>>

FssReply(devices) ==
    HttpResponse(<<StartTag("sci_reply", <<(<<"version", <<"1.0">> >>)>>),
                   StartTag("file_system", NoAttrib)>>
                 \o devices \o <<EndTag("file_system"), EndTag("sci_reply")>>)

PutFileDone == FssCommands(<<StartTag("put_file", NoAttrib), EndTag("put_file")>>)

PutFileError ==
    FssCommands(<<StartTag("put_file", NoAttrib), CharData(<<"\n">>),
                  StartTag("error", <<(<<"id", <<"1">> >>)>>), CharData(<<"No such file">>),
                  EndTag("error"), CharData(<<"\n">>), EndTag("put_file")>>)

DeviceNotConnected ==
    <<StartTag("error", <<(<<"id", <<"2", "0", "0", "1">> >>)>>), StartTag("desc", NoAttrib),
      CharData(<<"Device Not Connected">>), EndTag("desc"), EndTag("error")>>

PutFileServers ==
    {HttpFailure,
     FssReply(FssDevice("DEV1", PutFileDone) \o FssDevice("DEV2", PutFileDone)),
     FssReply(FssDevice("DEV1", DeviceNotConnected) \o FssDevice("DEV2", PutFileDone)),
     FssReply(FssDevice("DEV1", PutFileError)),
     FssReply(<<>>),
     FssReply(FssDevice("DEV1", FssCommands(<<EmptyTag("rm", NoAttrib)>>))),
     HttpResponse(<<StartTag("sci_reply", NoAttrib), StartTag("file_system", NoAttrib),
                    EndTag("sci_reply")>>)}

PutFileTargets == {DeviceTarget(PyStr(<<"DEV1">>)), AllTarget, PyInt(5)}

\* FileSystemServiceAPI.put_file(target, path, file_data, server_file, offset, truncate)
PutFile ==
    /\ call = NoCall
    /\ \E target \in PutFileTargets,
          file_data \in {None, PyBytes(<<"h", "i">>), PyStr(<<"h", "i">>)},
          server_file \in {None, PyStr(<<"/srv/f">>)},
          offset \in {None, PyInt(4)},
          truncate \in {PyBool(FALSE), PyBool(TRUE)},
          server \in PutFileServers :
          \E r \in {put_file(target, PyStr(<<"/a/path">>), file_data, server_file,
                            offset, truncate, server)} :
          call' = [op |-> "put_file", target |-> target, file_data |-> file_data,
                   server_file |-> server_file, offset |-> offset,
                   truncate |-> truncate, server |-> server, outcome |-> r.outcome,
                   exc |-> r.exc, sent |-> r.sent, value |-> r.value]
    /\ UNCHANGED <<py3, dev, dc, proxy, hist, th>>

\* the caller is done with the result of the call
Return ==
    /\ call # NoCall
    /\ call' = NoCall
    /\ UNCHANGED <<py3, dev, dc, proxy, hist, th>>

EnvelopeInit ==
    /\ py3 \in BOOLEAN
    /\ call = NoCall
    /\ proxy = NoProxy
    /\ hist = NoHist
    /\ th = <<>>
    /\ dev = NoDevice
    /\ dc = NoDeviceCloud

EnvelopeNext == SendSci \/ PutFile \/ Return

SpecEnvelope == EnvelopeInit /\ [][EnvelopeNext]_vars

-----------------------------------------------------------------------------
(* File system calls and what the devices answer.  The replies are those of  *)
(* test/unit/test_file_system_service.py: each device answers the commands   *)
(* of the request in one of a few ways.                                      *)

Newline == CharData(<<"\n">>)

\* LS_BLOCK, GET_FILE_BLOCK and GENERIC_COMMAND_BLOCK, with the tag as given
SuccessReply(cls, tag) ==
    CASE cls = "LsCommand" ->
           <<StartTag(tag, <<(<<"hash", <<"md5">> >>)>>), Newline,
             EmptyTag("dir", << <<"path", <<"/", "a", "/", "path", "/", "dir">> >>,
                                <<"last_modified", <<"3", "0">> >> >>), Newline,
             EmptyTag("file", << <<"path", <<"/", "a", "/", "path", "/", "file1.txt">> >>,
                                 <<"last_modified", <<"1", "0">> >>,
                                 <<"size", <<"7">> >>, <<"hash", <<"967F">> >> >>), Newline,
             EmptyTag("file", << <<"path", <<"/", "a", "/", "path", "/", "file2.py">> >>,
                                 <<"last_modified", <<"2", "0">> >>,
                                 <<"size", <<"1", "8", "1">> >>, <<"hash", <<"DEA1">> >> >>),
             Newline, EndTag(tag)>>
      [] cls = "GetCommand" ->
           <<StartTag(tag, NoAttrib), Newline, StartTag("data", NoAttrib),
             CharData(<<"a", "G", "k", "=">>), EndTag("data"), Newline, EndTag(tag)>>
      [] OTHER -> <<StartTag(tag, NoAttrib), EndTag(tag)>>

\* ERROR_BLOCK
ErrorReply(cls) ==
    <<StartTag(command_name[cls], NoAttrib), Newline,
      StartTag("error", <<(<<"id", <<"1">> >>)>>), CharData(<<"No such file or directory">>),
      EndTag("error"), Newline, EndTag(command_name[cls])>>

Upper(tag) ==
    CASE tag = "ls" -> "LS"
      [] tag = "get_file" -> "GET_FILE"
      [] tag = "put_file" -> "PUT_FILE"
      [] tag = "rm" -> "RM"

Reverse(seq) == [i \in 1..Len(seq) |-> seq[Len(seq) + 1 - i]]

\* how a device answers: every command in order; not at all (it is not
\* connected); the first command with an error; the replies in reverse order;
\* without the last reply; the first reply under a tag of no command; every tag
\* in upper case; with an <error> of the device followed by a <commands> that
\* answers every command
Behaviours ==
    {"ok", "not_connected", "first_fails", "reversed", "short", "foreign", "shouted",
     "error_first"}

\* the content of the <device> element of a device that was sent commands of
\* the classes `classes`
DeviceAnswer(behaviour, classes) ==
    LET n == Len(classes)
        ok == [i \in 1..n |-> SuccessReply(classes[i], command_name[classes[i]])]
    IN CASE behaviour = "ok" -> FssCommands(Concat(ok))
         [] behaviour = "not_connected" -> DeviceNotConnected
         [] behaviour = "first_fails" ->
              FssCommands(Concat([i \in 1..n |-> IF i = 1 THEN ErrorReply(classes[1]) ELSE ok[i]]))
         [] behaviour = "reversed" -> FssCommands(Concat(Reverse(ok)))
         [] behaviour = "short" -> FssCommands(Concat(SubSeq(ok, 1, n - 1)))
         [] behaviour = "foreign" ->
              FssCommands(Concat([i \in 1..n |->
                                     IF i = 1 THEN <<EmptyTag("foo", NoAttrib)>> ELSE ok[i]]))
         [] behaviour = "shouted" ->
              FssCommands(Concat([i \in 1..n |->
                                     SuccessReply(classes[i], Upper(command_name[classes[i]]))]))
         [] behaviour = "error_first" ->
              DeviceNotConnected \o FssCommands(Concat(ok))

DeviceId(i) == "DEV" \o IntToStr(i)

\* the replies to a request with commands of the classes `classes`: the
\* transport fails, the body is cut short, or up to MaxDevices devices answer
FssServers(classes) ==
    {HttpFailure,
     HttpResponse(<<StartTag("sci_reply", NoAttrib), StartTag("file_system", NoAttrib),
                    EndTag("sci_reply")>>)}
    \cup {FssReply(Concat([i \in 1..Len(bs) |-> FssDevice(DeviceId(i), DeviceAnswer(bs[i], classes))])) :
             bs \in UNION {[1..m -> Behaviours] : m \in 0..MaxDevices}}

FssTargets == {DeviceTarget(PyStr(<<"DEV1">>)), AllTarget}

APath == PyStr(<<"/", "a", "/", "path">>)

\* one command of each class, as a caller adds it to a block
SampleCommand(cls) ==
    CASE cls = "LsCommand" -> LsCommand(APath, PyStr(<<"md5">>))
      [] cls = "GetCommand" -> GetCommand(APath, None, None)
      [] cls = "PutCommand" ->
           PutCommand(APath, PyBytes(<<"h", "i">>), None, None, PyBool(FALSE)).value
      [] cls = "DeleteCommand" -> DeleteCommand(APath)

CommandClasses == DOMAIN command_name

\* the blocks of up to MaxCommands commands, as sequences of classes
Blocks == UNION {[1..n -> CommandClasses] : n \in 0..MaxCommands}

\* FileSystemServiceAPI.list_files(target, path, hash)
ListFiles ==
    /\ call = NoCall
    /\ \E target \in FssTargets, hash \in {PyStr(<<"any">>), PyStr(<<"md5">>)},
          server \in FssServers(<<"LsCommand">>) :
          \E r \in {list_files(target, APath, hash, server)} :
          call' = [op |-> "list_files", target |-> target, classes |-> <<"LsCommand">>,
                   hash |-> hash, server |-> server, outcome |-> r.outcome, exc |-> r.exc,
                   sent |-> r.sent, value |-> r.value]
    /\ UNCHANGED <<py3, dev, dc, proxy, hist, th>>

\* FileSystemServiceAPI.get_file(target, path, offset, length)
GetFile ==
    /\ call = NoCall
    /\ \E target \in FssTargets, offset \in {None, PyInt(4)}, length \in {None, PyInt(2)},
          server \in FssServers(<<"GetCommand">>) :
          \E r \in {get_file(target, APath, offset, length, server)} :
          call' = [op |-> "get_file", target |-> target, classes |-> <<"GetCommand">>,
                   offset |-> offset, length |-> length, server |-> server, outcome |-> r.outcome, exc |-> r.exc,
                   sent |-> r.sent, value |-> r.value]
    /\ UNCHANGED <<py3, dev, dc, proxy, hist, th>>

\* FileSystemServiceAPI.put_file(target, path, file_data, server_file, offset, truncate),
\* answered by the devices
PutFileAnswered ==
    /\ call = NoCall
    /\ \E target \in FssTargets, file_data \in {None, PyBytes(<<"h", "i">>)},
          server_file \in {None, PyStr(<<"/srv/f">>)},
          server \in FssServers(<<"PutCommand">>) :
          \E r \in {put_file(target, APath, file_data, server_file, None, PyBool(FALSE),
                            server)} :
          call' = [op |-> "put_file", target |-> target, classes |-> <<"PutCommand">>,
                   file_data |-> file_data, server_file |-> server_file,
                   server |-> server, outcome |-> r.outcome, exc |-> r.exc,
                   sent |-> r.sent, value |-> r.value]
    /\ UNCHANGED <<py3, dev, dc, proxy, hist, th>>

\* FileSystemServiceAPI.delete_file(target, path)
DeleteFile ==
    /\ call = NoCall
    /\ \E target \in FssTargets, server \in FssServers(<<"DeleteCommand">>) :
          \E r \in {delete_file(target, APath, server)} :
          call' = [op |-> "delete_file", target |-> target, classes |-> <<"DeleteCommand">>,
                   server |-> server, outcome |-> r.outcome, exc |-> r.exc,
                   sent |-> r.sent, value |-> r.value]
    /\ UNCHANGED <<py3, dev, dc, proxy, hist, th>>

\* FileSystemServiceAPI.send_command_block(target, command_block)
SendCommandBlock ==
    /\ call = NoCall
    /\ \E target \in FssTargets, classes \in Blocks :
       \E server \in FssServers(classes) :
          \E r \in {send_command_block(target,
                                      [i \in 1..Len(classes) |-> SampleCommand(classes[i])],
                                      server)} :
          call' = [op |-> "send_command_block", target |-> target, classes |-> classes,
                   server |-> server, outcome |-> r.outcome, exc |-> r.exc,
                   sent |-> r.sent, value |-> r.value]
    /\ UNCHANGED <<py3, dev, dc, proxy, hist, th>>

\* FileSystemServiceAPI.get_modified_items(target, path, last_modified_cutoff)
GetModifiedItems ==
    /\ call = NoCall
    /\ \E target \in FssTargets, last_modified_cutoff \in {PyInt(0), PyInt(10), PyInt(30)},
          server \in FssServers(<<"LsCommand">>) :
          \E r \in {get_modified_items(target, APath, last_modified_cutoff, server)} :
          call' = [op |-> "get_modified_items", target |-> target,
                   classes |-> <<"LsCommand">>, cutoff |-> last_modified_cutoff,
                   server |-> server, outcome |-> r.outcome, exc |-> r.exc,
                   sent |-> r.sent, value |-> r.value]
    /\ UNCHANGED <<py3, dev, dc, proxy, hist, th>>

\* the paths asked about: a file of the listing, a directory with a trailing
\* separator, a name that is not there, a file of the listing after a doubled
\* separator, a name without any separator, the root
ExistsPaths ==
    {PyStr(<<"/", "a", "/", "path", "/", "file1.txt">>),
     PyStr(<<"/", "a", "/", "path", "/", "dir", "/">>),
     PyStr(<<"/", "a", "/", "path", "/", "nothing">>),
     PyStr(<<"/", "a", "/", "path", "/", "/", "file1.txt">>),
     PyStr(<<"file1.txt">>),
     PyStr(<<"/">>)}

\* FileSystemServiceAPI.exists(target, path)
Exists ==
    /\ call = NoCall
    /\ \E target \in FssTargets, path \in ExistsPaths, server \in FssServers(<<"LsCommand">>) :
          \E r \in {exists(target, path, server)} :
          call' = [op |-> "exists", target |-> target, classes |-> <<"LsCommand">>,
                   path |-> path, server |-> server, outcome |-> r.outcome,
                   exc |-> r.exc, sent |-> r.sent, value |-> r.value]
    /\ UNCHANGED <<py3, dev, dc, proxy, hist, th>>

\* PutCommand(path, file_data, server_file, offset, truncate)
NewPutCommand ==
    /\ call = NoCall
    /\ \E file_data \in {None, PyBytes(<<"h", "i">>), PyStr(<<"h", "i">>)},
          server_file \in {None, PyStr(<<"/srv/f">>)},
          offset \in {None, PyInt(4)},
          truncate \in {PyBool(FALSE), PyBool(TRUE)} :
          LET r == PutCommand(APath, file_data, server_file, offset, truncate) IN
          call' = [op |-> "PutCommand", file_data |-> file_data,
                   server_file |-> server_file, offset |-> offset, truncate |-> truncate,
                   outcome |-> IF r.outcome = "raised" THEN "raised" ELSE "returned",
                   exc |-> r.exc, sent |-> <<>>, value |-> r.value]
    /\ UNCHANGED <<py3, dev, dc, proxy, hist, th>>

\* the elements handed to parse_response: the reply of each command, plain,
\* with an error and in upper case, and elements that are no reply at all
ReplyElements ==
    {ParseXml(lexemes).root :
        lexemes \in {SuccessReply(cls, command_name[cls]) : cls \in CommandClasses}
               \cup {SuccessReply(cls, Upper(command_name[cls])) : cls \in CommandClasses}
               \cup {ErrorReply(cls) : cls \in CommandClasses}
               \cup {<<EmptyTag("foo", NoAttrib)>>,
                     <<StartTag("foo", NoAttrib), StartTag("error", <<(<<"id", <<"1">> >>)>>),
                       CharData(<<"No such file or directory">>), EndTag("error"),
                       EndTag("foo")>>}}

\* cls.parse_response(response, device_id=device_id, fssapi=fssapi)
ParseResponse ==
    /\ call = NoCall
    /\ \E cls \in CommandClasses, response \in ReplyElements,
          device_id \in {None, PyStr(<<"DEV1">>)}, fssapi \in BOOLEAN :
          LET r == parse_response(cls, <<response>>, device_id, fssapi) IN
          call' = [op |-> "parse_response", cls |-> cls, response |-> response,
                   device_id |-> device_id, fssapi |-> fssapi,
                   outcome |-> IF r.outcome = "raised" THEN "raised" ELSE "returned",
                   exc |-> r.exc, sent |-> <<>>, value |-> r.value]
    /\ UNCHANGED <<py3, dev, dc, proxy, hist, th>>

FssNext ==
    \/ ListFiles
    \/ GetFile
    \/ PutFileAnswered
    \/ DeleteFile
    \/ SendCommandBlock
    \/ GetModifiedItems
    \/ Exists
    \/ NewPutCommand
    \/ ParseResponse
    \/ Return

SpecFss == EnvelopeInit /\ [][FssNext]_vars

-----------------------------------------------------------------------------
(* Reading an envelope back: the start tag of the operation element is the   *)
(* run of chunks after "<sci_request ...>" "<" up to the first ">".          *)

FirstIndexOf(chunks, c, from) ==
    LET hits == {i \in from..Len(chunks) : chunks[i] = c} IN
    IF hits = {} THEN 0 ELSE CHOOSE i \in hits : \A j \in hits : i <= j

OperationStartTag(data) == SubSeq(data, 3, FirstIndexOf(data, ">", 3) - 1)

\* the positions in a start tag where the attribute `attr` begins
AttributeAt(tag, attr) == {i \in 1..Len(tag) : tag[i] = " " \o attr \o "=\""}

AttributeAbsent(tag, attr) == AttributeAt(tag, attr) = {}

\* the attribute is there once, with exactly this value
AttributeIs(tag, attr, value) ==
    /\ Cardinality(AttributeAt(tag, attr)) = 1
    /\ \A i \in AttributeAt(tag, attr) :
          /\ i + Len(value) + 1 <= Len(tag)
          /\ SubSeq(tag, i + 1, i + Len(value)) = value
          /\ tag[i + Len(value) + 1] = "\""

\* option of send_sci -> attribute of the operation element
BoolOptionAttribute ==
    [synchronous |-> "synchronous", cache |-> "cache",
     allow_offline |-> "allowOffline", wait_for_reconnect |-> "waitForReconnect"]

Posted == call.op = "send_sci" /\ Len(call.sent) > 0

\* C7: in the envelope send_sci builds, each of synchronous, cache,
\* allow_offline and wait_for_reconnect is absent from the operation element
\* when the option is None, and present with the literal "true" / "false" when the
\* option is True / False.
C7_BoolOptionsOmittedOrLiteral ==
    Posted =>
        \A opt \in DOMAIN BoolOptionAttribute :
            LET v == call.options[opt]
                tag == OperationStartTag(call.sent[1].data)
                attr == BoolOptionAttribute[opt]
            IN /\ IsNone(v) => AttributeAbsent(tag, attr)
               /\ v = PyBool(TRUE) => AttributeIs(tag, attr, <<"true">>)
               /\ v = PyBool(FALSE) => AttributeIs(tag, attr, <<"false">>)

C7_Witness ==
    /\ Posted
    /\ call.options.synchronous = PyBool(TRUE)
    /\ call.options.cache = PyBool(FALSE)
    /\ IsNone(call.options.allow_offline)
    /\ call.options.wait_for_reconnect = PyBool(TRUE)
    /\ AttributeIs(OperationStartTag(call.sent[1].data), "cache", <<"false">>)

\* the arguments of the call are of the types send_sci documents
WellTypedCall ==
    /\ call.op = "send_sci"
    /\ IsStringType(call.payload) \/ IsBinaryType(call.payload)
    /\ \/ IsTargetABC(call.target)
       \/ /\ call.target.t = "list"
          /\ \A i \in 1..Len(call.target.items) : IsTargetABC(call.target.items[i])
    /\ IsNone(call.options.reply) \/ IsStringType(call.options.reply)
    /\ IsNone(call.options.sync_timeout) \/ call.options.sync_timeout.t = "int"
    /\ \A opt \in DOMAIN BoolOptionAttribute :
          IsNone(call.options[opt]) \/ IsBool(call.options[opt])

\* C8: every one of the six options reply, synchronous, syncTimeout, cache,
\* allowOffline and waitForReconnect that the caller supplies (non-None, of the
\* right type) is rendered as an attribute on the operation element of the
\* envelope send_sci posts.
C8_EverySuppliedOptionRendered ==
    WellTypedCall =>
        /\ call.outcome = "raised" => call.exc # "TypeError"
        /\ Len(call.sent) > 0 =>
              LET tag == OperationStartTag(call.sent[1].data) IN
              /\ ~IsNone(call.options.reply) =>
                     AttributeIs(tag, "reply", FormatValue(call.options.reply))
              /\ ~IsNone(call.options.sync_timeout) =>
                     AttributeIs(tag, "syncTimeout", FormatValue(call.options.sync_timeout))
              /\ \A opt \in DOMAIN BoolOptionAttribute :
                     ~IsNone(call.options[opt]) =>
                         ~AttributeAbsent(tag, BoolOptionAttribute[opt])

AllOptionsNone == \A opt \in OptionNames : IsNone(call.options[opt])

\* the target argument as the list of targets it stands for
TargetsOf(target) == IF target.t = "list" THEN target.items ELSE <<target>>

\* C10: with all options None, a non-empty list of targets t1..tn (or a single
\* target, as the one-element list) and a payload p, send_sci performs exactly
\* one POST to /ws/sci whose body is exactly
\* <sci_request version="1.0"><op><targets> t1..tn </targets> p </op></sci_request>
\* with no extra whitespace.
C10_LiteralEnvelope ==
    (WellTypedCall /\ AllOptionsNone /\ Len(TargetsOf(call.target)) > 0) =>
        /\ Len(call.sent) = 1
        /\ call.sent[1].method = "POST"
        /\ call.sent[1].path = "/ws/sci"
        /\ Join(call.sent[1].data) =
              "<sci_request version=\"1.0\"><" \o Join(call.operation.s) \o "><targets>"
              \o Join(Concat([i \in 1..Len(TargetsOf(call.target)) |->
                                 to_xml(TargetsOf(call.target)[i])]))
              \o "</targets>" \o Join(call.payload.s)
              \o "</" \o Join(call.operation.s) \o "></sci_request>"

\* the payload of a send_sci call is neither text nor a byte string
BadPayload == ~(IsStringType(call.payload) \/ IsBinaryType(call.payload))

\* the target of a send_sci call is no TargetABC, or is an iterable with an
\* element that is no TargetABC
BadTarget ==
    IF IsIterable(call.target)
    THEN \E i \in 1..Len(IterItems(call.target)) : ~IsTargetABC(IterItems(call.target)[i])
    ELSE ~IsTargetABC(call.target)

\* put_file was given both file_data and server_file, or neither
BadPutFileData == IsNone(call.file_data) = IsNone(call.server_file)

\* C9: a usage error never reaches the transport.  send_sci called with a
\* payload that is neither text nor bytes, or with a target (or an element of an
\* iterable of targets) that is no TargetABC, and put_file called with both or
\* neither of file_data and server_file, raise, and no request has been issued.
C9_UsageErrorsRaiseBeforeAnyRequest ==
    /\ (call.op = "send_sci" /\ (BadPayload \/ BadTarget)) =>
           (call.outcome = "raised" /\ call.sent = <<>>)
    /\ (call.op = "put_file" /\ BadPutFileData) =>
           (call.outcome = "raised" /\ call.exc = "FileSystemServiceException"
            /\ call.sent = <<>>)

C9_Witness ==
    /\ call.op = "put_file"
    /\ ~IsNone(call.file_data) /\ ~IsNone(call.server_file)
    /\ IsTargetABC(call.target)
    /\ ~call.server.raises
    /\ call.outcome = "raised"
    /\ call.sent = <<>>

\* Reading the rendering of a target back with the XML grammar: the lexemes of
\* the text `<name attr="value"/>` (an empty-element tag) or `<name attr="value">`
\* (a start tag); <<>> when the text is neither.
ReadTag(chunks) ==
    LET n == Len(chunks)
        tag == IF chunks[1] = "<group path=\"" THEN "group" ELSE "device"
        attr == CASE chunks[1] = "<device id=\"" -> "id"
                  [] chunks[1] = "<device tag=\"" -> "tag"
                  [] OTHER -> "path"
        value == SubSeq(chunks, 2, n - 1)
    IN IF chunks = <<"<device id=\"all\"/>">>
       THEN <<EmptyTag("device", <<(<<"id", <<"all">> >>)>>)>>
       ELSE IF n < 2 \/ chunks[1] \notin {"<device id=\"", "<device tag=\"", "<group path=\""}
       THEN <<>>
       ELSE IF chunks[n] = "\"/>" THEN <<EmptyTag(tag, <<(<<attr, value>>)>>)>>
       ELSE IF chunks[n] = "\">" THEN <<StartTag(tag, <<(<<attr, value>>)>>)>>
       ELSE <<>>

\* the element and the one attribute a target stands for
TargetElement(tg) ==
    CASE tg.cls = "DeviceTarget" -> Element("device", <<(<<"id", tg.arg.s>>)>>)
      [] tg.cls = "AllTarget" -> Element("device", <<(<<"id", <<"all">> >>)>>)
      [] tg.cls = "TagTarget" -> Element("device", <<(<<"tag", tg.arg.s>>)>>)
      [] tg.cls = "GroupTarget" -> Element("group", <<(<<"path", tg.arg.s>>)>>)

\* C11: for every target variant (DeviceTarget, AllTarget, TagTarget,
\* GroupTarget), to_xml() yields a single well-formed, self-contained element
\* (<device .../> or <group .../>) carrying exactly the one identifying attribute
\* supplied (id, tag or path).
C11_TargetRendersOneElement ==
    Posted =>
        \A i \in 1..Len(TargetsOf(call.target)) :
            LET tg == TargetsOf(call.target)[i]
                dom == ParseXml(ReadTag(to_xml(tg)))
            IN dom.ok /\ dom.root = TargetElement(tg)

-----------------------------------------------------------------------------
(* devicecloud/sci.py: AsyncRequestProxy and send_sci_async *)

\* AsyncRequestProxy(job_id, conn): response is None (<<>>) until completion
AsyncRequestProxy(job_id) ==
    [t |-> "AsyncRequestProxy", exists |-> TRUE, job_id |-> job_id, response |-> <<>>]

\* a setdefault instead of an assignment: the caller's value would win
AsyncSciOptionsKeepCaller(sci_options) ==
    IF "synchronous" \in DOMAIN sci_options THEN sci_options
    ELSE DictSet(sci_options, "synchronous", PyBool(FALSE))

\* the options send_sci_async hands to send_sci
AsyncSciOptions(sci_options) == DictSet(sci_options, "synchronous", PyBool(FALSE))

\* dom.find('./jobId'): only the children of the root are searched
FindJobElementAmongChildren(dom) ==
    LET hits == {i \in 1..Len(dom.children) : dom.children[i].tag = "jobId"} IN
    IF hits = {} THEN <<>>
    ELSE <<dom.children[CHOOSE i \in hits : \A j \in hits : i <= j]>>

\* dom.find('.//jobId')
FindJobElement(dom) == FindDescendant(dom, "jobId")

\* What one call of send_sci_async does: how it ends, what it returns (None or
\* a proxy), what it passed to send_sci and what went to the transport.
send_sci_async(operation, target, payload, sci_options, server) ==
    LET forced == AsyncSciOptions(sci_options)
        r == send_sci(operation, target, payload, BindOptions(forced), server)
        dom == ParseXml(r.resp.content)
        job_element == FindJobElement(dom.root)
        job_id == PyIntOf(job_element[1].text)
        base == [dispatched |-> forced, sent |-> r.sent, outcome |-> "raised",
                 exc |-> "", value |-> None]
    IN IF r.outcome = "raised" THEN [base EXCEPT !.exc = r.exc]
       ELSE IF ~dom.ok THEN [base EXCEPT !.exc = "ParseError"]
       ELSE IF job_element = <<>> THEN [base EXCEPT !.outcome = "returned"]
       ELSE IF ~job_id.ok THEN [base EXCEPT !.exc = "ValueError"]
       ELSE [base EXCEPT !.outcome = "returned",
                         !.value = AsyncRequestProxy(job_id.n)]

\* the cached response is never consulted
NeverComplete(p) == FALSE

\* `if self.response is not None: return True`
AlreadyComplete(p) == p.response # <<>>

\* any <status> element counts as completion, whatever its text
PolledOutcomeAnyStatus(content) ==
    LET dom == ParseXml(content)
        status == FindDescendant(dom.root, "status")
    IN IF ~dom.ok THEN "raised"
       ELSE IF status # <<>> THEN "complete"
       ELSE "pending"

\* some <status> element of the body says complete, not necessarily the first
PolledOutcomeSomeStatus(content) ==
    LET dom == ParseXml(content)
        ds == Descendants(dom.root)
    IN IF ~dom.ok THEN "raised"
       ELSE IF \E i \in 1..Len(ds) : ds[i].tag = "status" /\ Join(ds[i].text) = "complete"
            THEN "complete"
       ELSE "pending"

\* a body that is no XML is taken for the reply of a finished job
PolledOutcomeMalformedCompletes(content) ==
    LET dom == ParseXml(content)
        status == FindDescendant(dom.root, "status")
    IN IF ~dom.ok THEN "complete"
       ELSE IF status # <<>> /\ Join(status[1].text) = "complete" THEN "complete"
       ELSE "pending"

\* The part of AsyncRequestProxy.completed after the GET has returned: does the
\* polled body say the job is complete?  "raised" when the body is no XML.
PolledOutcome(content) ==
    LET dom == ParseXml(content)
        status == FindDescendant(dom.root, "status")
    IN IF ~dom.ok THEN "raised"
       ELSE IF status # <<>> /\ Join(status[1].text) = "complete" THEN "complete"
       ELSE "pending"

\* the GET that `completed` issues
PollRequest(job_id) == Request("GET", "/ws/sci/" \o IntToStr(job_id), <<>>)

-----------------------------------------------------------------------------
(* The server, for asynchronous requests: what it answers to the POST of    *)
(* send_sci_async and to the GET of a job.  The bodies are those of          *)
(* test/unit/test_sci.py and variations of them.                             *)

SciReplyStart == StartTag("sci_reply", <<(<<"version", <<"1.0">> >>)>>)

NotConnected ==
    << StartTag("reboot", NoAttrib),
       StartTag("device", <<(<<"id", <<"00000000-00000000-00409DFF-FF58175B">> >>)>>),
       StartTag("error", <<(<<"id", <<"2", "0", "0", "1">> >>)>>), StartTag("desc", NoAttrib),
       CharData(<<"Device Not Connected">>), EndTag("desc"), EndTag("error"),
       EndTag("device"), EndTag("reboot") >>

JobIdElement(text) == <<StartTag("jobId", NoAttrib), CharData(text), EndTag("jobId")>>

\* the reply to the POST: `jobs` are the ids of the jobs it names in its <jobId>
\* elements, in document order
Scheduled(jobs, content) == [raises |-> FALSE, wf |-> TRUE, jobs |-> jobs, content |-> content]

AsyncPostServers ==
    { [raises |-> TRUE, wf |-> FALSE, jobs |-> <<>>, content |-> <<>>],
      \* EXAMPLE_ASYNC_SCI_RESPONSE
      Scheduled(<<133>>,
                <<SciReplyStart, CharData(<<"\n", " ", " ">>), StartTag("send_message", NoAttrib),
                  CharData(<<"\n", " ", " ", " ", " ">>)>>
                \o JobIdElement(<<"1", "3", "3">>)
                \o <<CharData(<<"\n", " ", " ">>), EndTag("send_message"),
                     CharData(<<"\n">>), EndTag("sci_reply"), CharData(<<"\n">>)>>),
      \* EXAMPLE_SCI_BAD_DEVICE: no job was scheduled
      Scheduled(<<>>,
                <<SciReplyStart, StartTag("send_message", NoAttrib),
                  StartTag("device", <<(<<"id", <<"00010000-00000000-03599990-42983300">> >>)>>),
                  StartTag("error", <<(<<"id", <<"3", "0", "3">> >>)>>), StartTag("desc", NoAttrib),
                  CharData(<<"Invalid target. Device not found.">>), EndTag("desc"),
                  EndTag("error"), EndTag("device"),
                  StartTag("error", NoAttrib),
                  CharData(<<"Invalid SCI request. No valid targets found.">>),
                  EndTag("error"), EndTag("send_message"), EndTag("sci_reply")>>),
      \* two jobs, the second nested after the first
      Scheduled(<<7, 9>>,
                <<SciReplyStart, StartTag("send_message", NoAttrib)>>
                \o JobIdElement(<<"7">>)
                \o <<StartTag("device", NoAttrib)>> \o JobIdElement(<<"9">>)
                \o <<EndTag("device"), EndTag("send_message"), EndTag("sci_reply")>>),
      \* the job id on a line of its own
      Scheduled(<<40>>,
                <<SciReplyStart, StartTag("reboot", NoAttrib)>>
                \o JobIdElement(<<"\n", " ", "4", "0", "\n">>)
                \o <<EndTag("reboot"), EndTag("sci_reply")>>),
      \* a body cut short
      [raises |-> FALSE, wf |-> FALSE, jobs |-> <<7>>,
       content |-> <<SciReplyStart, StartTag("send_message", NoAttrib)>>
                   \o JobIdElement(<<"7">>)] }

\* the reply to the GET of a job: `says` is the state of the job the server
\* reports ("none" when the body carries no status)
Polled(says, content) == [raises |-> FALSE, says |-> says, content |-> content]

StatusElement(text) == <<StartTag("status", NoAttrib), CharData(<<text>>), EndTag("status")>>

PollServers ==
    { [raises |-> TRUE, says |-> "unreachable", content |-> <<>>],
      \* EXAMPLE_ASYNC_SCI_INCOMPLETE
      Polled("in_progress",
             <<SciReplyStart>> \o StatusElement("in_progress")
             \o <<EndTag("sci_reply"), CharData(<<"\n">>)>>),
      \* EXAMPLE_ASYNC_SCI_DEVICE_NOT_CONNECTED
      Polled("complete",
             <<SciReplyStart>> \o StatusElement("complete") \o NotConnected
             \o <<EndTag("sci_reply"), CharData(<<"\n">>)>>),
      \* complete, with another body
      Polled("complete",
             <<SciReplyStart>> \o StatusElement("complete")
             \o <<EmptyTag("send_message", NoAttrib), EndTag("sci_reply")>>),
      \* in progress, with a device reply that has a status of its own
      Polled("in_progress",
             <<SciReplyStart>> \o StatusElement("in_progress")
             \o <<StartTag("send_message", NoAttrib)>> \o StatusElement("complete")
             \o <<EndTag("send_message"), EndTag("sci_reply")>>),
      \* no status at all
      Polled("none", <<SciReplyStart>> \o NotConnected \o <<EndTag("sci_reply")>>),
      \* an empty status element
      Polled("none",
             <<SciReplyStart, EmptyTag("status", NoAttrib), EndTag("sci_reply")>>),
      Polled("canceled",
             <<SciReplyStart>> \o StatusElement("canceled") \o <<EndTag("sci_reply")>>),
      \* a body cut short
      Polled("malformed", <<SciReplyStart>> \o StatusElement("complete")) }

\* keyword arguments a caller passes to send_sci_async: any subset of the
\* options, synchronous with every value it can take
SampleOption ==
    [reply |-> PyStr(<<"all">>), synchronous |-> None, sync_timeout |-> PyInt(30),
     cache |-> PyBool(TRUE), allow_offline |-> None,
     wait_for_reconnect |-> PyBool(FALSE)]

AsyncKwargs ==
    { [n \in S |-> IF n = "synchronous" THEN sv ELSE SampleOption[n]] :
        S \in SUBSET OptionNames, sv \in {None, PyBool(TRUE), PyBool(FALSE)} }

AsyncTargets == {DeviceTarget(PyStr(<<"DEV1">>)), PyInt(5)}

\* sci.send_sci_async(operation, target, payload, **sci_options); the caller
\* keeps the proxy it gets back
SendSciAsync ==
    /\ call = NoCall
    /\ \E target \in AsyncTargets, sci_options \in AsyncKwargs, server \in AsyncPostServers :
          LET operation == PyStr(<<"send_message">>)
              payload == PyStr(<<"<reset/>">>)
              r == send_sci_async(operation, target, payload, sci_options, server)
          IN /\ call' = [op |-> "send_sci_async", operation |-> operation,
                         target |-> target, payload |-> payload,
                         kwargs |-> sci_options, server |-> server,
                         dispatched |-> r.dispatched, outcome |-> r.outcome,
                         exc |-> r.exc, sent |-> r.sent, value |-> r.value]
             /\ IF r.outcome = "returned" /\ ~IsNone(r.value)
                THEN proxy' = r.value /\ hist' = NoHist
                ELSE UNCHANGED <<proxy, hist>>
    /\ UNCHANGED <<py3, dev, dc, th>>

\* one read of proxy.completed by the caller
Completed ==
    /\ call = NoCall
    /\ proxy.exists
    /\ \E server \in PollServers :
          LET base == [op |-> "completed", before |-> proxy.response, server |-> server,
                       outcome |-> "returned", exc |-> "", sent |-> <<>>,
                       value |-> PyBool(TRUE)]
              polled == PolledOutcome(server.content)
              seen == [hist EXCEPT
                          !.gets = @ + 1,
                          !.first = IF @ = <<>> /\ ~server.raises /\ server.says = "complete"
                                    THEN <<server.content>> ELSE @]
              get == [base EXCEPT !.sent = <<PollRequest(proxy.job_id)>>]
          IN IF AlreadyComplete(proxy)
             THEN call' = base /\ UNCHANGED <<proxy, hist>>
             ELSE /\ hist.gets < MaxReads
                  /\ IF server.raises
                     THEN /\ call' = [get EXCEPT !.outcome = "raised",
                                                 !.exc = "DeviceCloudHttpException"]
                          /\ hist' = [seen EXCEPT !.failed = TRUE] /\ UNCHANGED proxy
                     ELSE IF polled = "raised"
                     THEN /\ call' = [get EXCEPT !.outcome = "raised", !.exc = "ParseError"]
                          /\ hist' = [seen EXCEPT !.failed = TRUE] /\ UNCHANGED proxy
                     ELSE IF polled = "complete"
                     THEN /\ call' = get
                          /\ proxy' = [proxy EXCEPT !.response = <<server.content>>]
                          /\ hist' = [seen EXCEPT !.stores = @ + 1]
                     ELSE /\ call' = [get EXCEPT !.value = PyBool(FALSE)]
                          /\ hist' = seen /\ UNCHANGED proxy
    /\ UNCHANGED <<py3, dev, dc, th>>

Init ==
    /\ py3 \in BOOLEAN
    /\ call = NoCall
    /\ proxy = NoProxy
    /\ hist = NoHist
    /\ th = <<>>
    /\ dev = NoDevice
    /\ dc = NoDeviceCloud

Next == SendSciAsync \/ Completed \/ Return

Spec == Init /\ [][Next]_vars

-----------------------------------------------------------------------------
(* Properties of AsyncRequestProxy and send_sci_async *)

\* the step is one read of `completed`
ReadStep == call.op = "none" /\ call'.op = "completed"

\* C1: reads of `completed` before the server's first 'complete' reply return
\* False while it says 'in_progress', the read that receives 'complete' returns
\* True, and every later read returns True and issues no further GET (the number
\* of GETs stops growing).
C1_CompletedLifecycle ==
    [][ReadStep =>
          /\ (hist.first = <<>> /\ call'.server.says = "in_progress") =>
                 /\ call'.outcome = "returned" /\ call'.value = PyBool(FALSE)
                 /\ hist'.gets = hist.gets + 1
          /\ (hist.first = <<>> /\ call'.server.says = "complete") =>
                 /\ call'.outcome = "returned" /\ call'.value = PyBool(TRUE)
                 /\ hist'.gets = hist.gets + 1
          /\ hist.first # <<>> =>
                 /\ call'.outcome = "returned" /\ call'.value = PyBool(TRUE)
                 /\ call'.sent = <<>>
                 /\ hist'.gets = hist.gets]_vars

C1_Witness ==
    /\ call.op = "completed"
    /\ call.before # <<>>
    /\ call.sent = <<>>
    /\ call.value = PyBool(TRUE)
    /\ hist.gets >= 3

\* C2: once `response` is set a read of `completed` never replaces it, and it
\* is the raw body of the first poll whose status was 'complete'.
C2_ResponseImmutable ==
    [][call'.op = "completed" =>
          /\ proxy.response # <<>> => proxy'.response = proxy.response
          /\ proxy'.response # <<>> => proxy'.response = hist'.first]_vars

C2_Witness ==
    /\ call.op = "completed"
    /\ call.before # <<>>
    /\ proxy.response = hist.first
    /\ call.server.says = "complete"
    /\ <<call.server.content>> # proxy.response

\* C4: a read of `completed` on a pending proxy issues exactly one GET to
\* /ws/sci/{job_id}; when the reply has no <status> or a <status> other than
\* 'complete', the read returns False and the proxy stays pending.
C4_PendingReadPolls ==
    (call.op = "completed" /\ call.before = <<>>) =>
        /\ Len(call.sent) = 1
        /\ call.sent[1].method = "GET"
        /\ call.sent[1].path = "/ws/sci/" \o IntToStr(proxy.job_id)
        /\ (~call.server.raises /\ call.server.says \in {"none", "in_progress", "canceled"}) =>
               /\ call.outcome = "returned"
               /\ call.value = PyBool(FALSE)
               /\ proxy.response = <<>>

C4_Witness ==
    /\ call.op = "completed"
    /\ call.before = <<>>
    /\ call.server.says = "none"
    /\ call.value = PyBool(FALSE)
    /\ hist.gets >= 2
    /\ proxy.job_id = 40

\* C5: whatever the caller passes for `synchronous` (nothing, None, True,
\* False), send_sci_async calls send_sci with synchronous=False and with every
\* other option as the caller gave it, and the envelope it posts carries
\* synchronous="false".
C5_AsyncForcesSynchronousFalse ==
    call.op = "send_sci_async" =>
        /\ DOMAIN call.dispatched = DOMAIN call.kwargs \cup {"synchronous"}
        /\ call.dispatched["synchronous"] = PyBool(FALSE)
        /\ \A n \in DOMAIN call.kwargs \ {"synchronous"} :
               call.dispatched[n] = call.kwargs[n]
        /\ Len(call.sent) > 0 =>
               AttributeIs(OperationStartTag(call.sent[1].data), "synchronous", <<"false">>)

C5_Witness ==
    /\ call.op = "send_sci_async"
    /\ DOMAIN call.kwargs = {"synchronous", "cache"}
    /\ call.kwargs["synchronous"] = PyBool(TRUE)
    /\ Len(call.sent) > 0

\* C6: on a well-formed reply, send_sci_async returns None exactly when the
\* reply holds no <jobId> element; otherwise it returns an AsyncRequestProxy
\* whose job_id is the integer of the first <jobId> and which is pending
\* (response None, no GET issued).
C6_NoJobIdNoHandle ==
    (call.op = "send_sci_async" /\ Len(call.sent) > 0 /\ call.server.wf) =>
        /\ call.outcome = "returned"
        /\ IsNone(call.value) <=> call.server.jobs = <<>>
        /\ call.server.jobs # <<>> =>
               /\ call.value.t = "AsyncRequestProxy"
               /\ call.value.job_id = call.server.jobs[1]
               /\ call.value.response = <<>>
               /\ proxy = call.value
               /\ hist = NoHist

C6_Witness ==
    /\ call.op = "send_sci_async"
    /\ call.server.jobs = <<7, 9>>
    /\ call.outcome = "returned"
    /\ proxy.job_id = 7

-----------------------------------------------------------------------------
(* Several threads reading `completed` of one shared AsyncRequestProxy while *)
(* the server reports the job complete.  A read is three steps: the check of *)
(* self.response, the GET, and the store of the body; the interpreter may    *)
(* switch threads between any two of them.                                   *)

Threads == 1..NumThreads

CompleteServers == {s \in PollServers : ~s.raises /\ s.says = "complete"}

\* sci.py:85  the thread looks at self.response
ThreadCheck(t) ==
    /\ th[t].pc = "check"
    /\ th' = [th EXCEPT ![t] = IF AlreadyComplete(proxy)
                               THEN [pc |-> "done", resp |-> <<>>, result |-> PyBool(TRUE)]
                               ELSE [pc |-> "get", resp |-> <<>>, result |-> None]]
    /\ UNCHANGED <<py3, dev, dc, call, proxy, hist>>

\* sci.py:87  the thread's GET is answered
ThreadGet(t) ==
    /\ th[t].pc = "get"
    /\ hist.gets < MaxReads
    /\ \E server \in CompleteServers :
          /\ th' = [th EXCEPT ![t].pc = "store", ![t].resp = server.content]
          /\ hist' = [hist EXCEPT !.gets = @ + 1,
                                  !.first = IF @ = <<>> THEN <<server.content>> ELSE @]
    /\ UNCHANGED <<py3, dev, dc, call, proxy>>

\* sci.py:88-94  the thread parses its body and stores it
ThreadStore(t) ==
    /\ th[t].pc = "store"
    /\ LET polled == PolledOutcome(th[t].resp) IN
       IF polled = "complete"
       THEN /\ proxy' = [proxy EXCEPT !.response = <<th[t].resp>>]
            /\ hist' = [hist EXCEPT !.stores = @ + 1]
            /\ th' = [th EXCEPT ![t].pc = "done", ![t].result = PyBool(TRUE)]
       ELSE /\ th' = [th EXCEPT ![t].pc = "done",
                                ![t].result = IF polled = "raised" THEN None
                                              ELSE PyBool(FALSE)]
            /\ UNCHANGED <<proxy, hist>>
    /\ UNCHANGED <<py3, dev, dc, call>>

\* the thread's call site reads `completed` again
ThreadReadAgain(t) ==
    /\ th[t].pc = "done"
    /\ hist.gets < MaxReads
    /\ th' = [th EXCEPT ![t] = [pc |-> "check", resp |-> <<>>, result |-> None]]
    /\ UNCHANGED <<py3, dev, dc, call, proxy, hist>>

ThreadsInit ==
    /\ py3 \in BOOLEAN
    /\ call = NoCall
    /\ proxy = AsyncRequestProxy(133)
    /\ hist = NoHist
    /\ th = [t \in Threads |-> [pc |-> "check", resp |-> <<>>, result |-> None]]
    /\ dev = NoDevice
    /\ dc = NoDeviceCloud

ThreadsNext ==
    \E t \in Threads :
        ThreadCheck(t) \/ ThreadGet(t) \/ ThreadStore(t) \/ ThreadReadAgain(t)

SpecThreads == ThreadsInit /\ [][ThreadsNext]_vars

\* C3: when threads read `completed` of one shared proxy concurrently while the
\* server reports 'complete', the cached response is written at most once, over
\* every interleaving of their check, GET and store steps.
C3_ResponseWrittenAtMostOnce == hist.stores <= 1

-----------------------------------------------------------------------------
(* Properties of the file system service *)

\* exactly one of file_data and server_file was given
ExactlyOneGiven == IsNone(call.file_data) # IsNone(call.server_file)

\* the put_file element of a finished PutCommand call has one child: <data>
\* with the base64 text of file_data, or <file> with server_file
OnePutChild ==
    /\ call.outcome = "returned"
    /\ call.value.tag = "put_file"
    /\ Len(call.value.children) = 1
    /\ IF ~IsNone(call.file_data)
       THEN /\ call.value.children[1].tag = "data"
            /\ call.file_data = PyBytes(<<"h", "i">>)
                  => Join(call.value.children[1].text) = "aGk="
       ELSE /\ call.value.children[1].tag = "file"
            /\ Join(call.value.children[1].text) = Join(call.server_file.s)

\* C12 as stated: constructing a PutCommand raises a usage error if and only if
\* not exactly one of file_data and server_file is supplied; with exactly one of
\* them it raises nothing and yields a put_file element with exactly one child.
C12_PutCommandRaisesIffNotExactlyOne ==
    call.op = "PutCommand" =>
        IF ExactlyOneGiven THEN OnePutChild
        ELSE call.outcome = "raised" /\ call.exc = "FileSystemServiceException"

\* C12, amended: constructing a PutCommand raises FileSystemServiceException
\* when both or neither of file_data and server_file are supplied, raises
\* TypeError when only file_data is supplied and it is no byte string, and
\* otherwise raises nothing and yields a put_file element with exactly one child.
C12_PutCommandRaisesIffNotExactlyOneOrNotBytes ==
    call.op = "PutCommand" =>
        IF ~ExactlyOneGiven
        THEN call.outcome = "raised" /\ call.exc = "FileSystemServiceException"
        ELSE IF ~IsNone(call.file_data) /\ ~IsBinaryType(call.file_data)
        THEN call.outcome = "raised" /\ call.exc = "TypeError"
        ELSE OnePutChild

C12_Witness ==
    /\ call.op = "PutCommand"
    /\ call.file_data = PyBytes(<<"h", "i">>)
    /\ IsNone(call.server_file)
    /\ OnePutChild
    /\ call.value.children[1].tag = "data"

\* C13: for every command class and every reply element whose tag differs from
\* the command_name of the class, parse_response raises ResponseParseError,
\* whatever the element holds (a nested <error> included) and whether or not
\* device_id and fssapi were supplied.
C13_WrongTagRaisesResponseParseError ==
    (call.op = "parse_response" /\ call.response.tag # command_name[call.cls]) =>
        (call.outcome = "raised" /\ call.exc = "ResponseParseError")

C13_Witness ==
    /\ call.op = "parse_response"
    /\ call.cls = "LsCommand"
    /\ call.response.tag = "get_file"
    /\ FindPath(call.response, <<"error">>) # <<>>
    /\ IsNone(call.device_id)
    /\ ~call.fssapi
    /\ call.exc = "ResponseParseError"

\* the operations that send one command, and the class of that command
OneCommandOps == {"list_files", "get_file", "put_file", "delete_file"}

\* the call was sent, and answered with a well-formed body
Answered ==
    /\ call.op \in OneCommandOps \cup {"send_command_block", "get_modified_items", "exists"}
    /\ call.sent # <<>>
    /\ ~call.server.raises
    /\ ParseXml(call.server.content).ok

\* the <device> elements of the reply, in document order
ReplyDevices == FindAllPath(ParseXml(call.server.content).root, <<"file_system", "device">>)

ReplyDeviceIds == {DeviceKey(ReplyDevices[i]) : i \in 1..Len(ReplyDevices)}

\* the reply elements of a device: the children of its <commands>
RepliesOf(device) ==
    LET commands == FindPath(device, <<"commands">>) IN
    IF commands = <<>> THEN <<>> ELSE commands[1].children

HasDeviceError(device) == FindPath(device, <<"error">>) # <<>>

HasCommandError(reply) == FindPath(reply, <<"error">>) # <<>>

\* the device answered the commands of the call one by one, in order, each
\* with an element of the command's name
AnswersInOrder(device) ==
    /\ ~HasDeviceError(device)
    /\ FindPath(device, <<"commands">>) # <<>>
    /\ Len(RepliesOf(device)) = Len(call.classes)
    /\ \A i \in 1..Len(call.classes) :
          RepliesOf(device)[i].tag = command_name[call.classes[i]]

\* what a command returns for the successful replies of the devices: the
\* listing of LS_BLOCK, the two bytes of the file, nothing for put_file and rm
SuccessValue(cls, device_id) ==
    CASE cls = "LsCommand" ->
           LsInfo(<<[t |-> "DirectoryInfo", device_id |-> device_id,
                     path |-> PyStr(<<"/", "a", "/", "path", "/", "dir">>), last_modified |-> PyInt(30)]>>,
                  <<[t |-> "FileInfo", device_id |-> device_id,
                     path |-> PyStr(<<"/", "a", "/", "path", "/", "file1.txt">>), last_modified |-> PyInt(10),
                     size |-> PyInt(7), hash |-> PyStr(<<"967F">>),
                     hash_type |-> PyStr(<<"md5">>)],
                    [t |-> "FileInfo", device_id |-> device_id,
                     path |-> PyStr(<<"/", "a", "/", "path", "/", "file2.py">>), last_modified |-> PyInt(20),
                     size |-> PyInt(181), hash |-> PyStr(<<"DEA1">>),
                     hash_type |-> PyStr(<<"md5">>)]>>)
      [] cls = "GetCommand" -> PyBytes(<<"h", "i">>)
      [] OTHER -> None

\* the type of the success value of each command
SuccessType ==
    [LsCommand |-> "LsInfo", GetCommand |-> "bytes", PutCommand |-> "NoneType",
     DeleteCommand |-> "NoneType"]

\* the ErrorInfo an <error id="n">message</error> or
\* <error id="n"><desc>message</desc></error> stands for
ErrorValue(error) ==
    ErrorInfo(PyIntOf(ElementGet(error, "id")[1]).n,
              IF error.text # <<>> THEN PyStr(error.text)
              ELSE PyStr(FindPath(error, <<"desc">>)[1].text))

\* what one reply element alone determines: its ErrorInfo, or the success value
SlotValue(reply, cls, device_id) ==
    IF HasCommandError(reply) THEN ErrorValue(FindPath(reply, <<"error">>)[1])
    ELSE SuccessValue(cls, device_id)

\* C14: send_command_block with a block of N commands, against a reply of M
\* distinct devices that each answer every command successfully, returns a map
\* with exactly those M device ids as keys, each mapped to a list of exactly N
\* results, the i-th being the parsed success value of the i-th command.
C14_BlockOfNCommandsToMDevices ==
    (/\ call.op = "send_command_block"
     /\ Answered
     /\ \A d \in 1..Len(ReplyDevices) :
           /\ AnswersInOrder(ReplyDevices[d])
           /\ \A i \in 1..Len(call.classes) : ~HasCommandError(RepliesOf(ReplyDevices[d])[i]))
    => /\ call.outcome = "returned"
       /\ DOMAIN call.value = ReplyDeviceIds
       /\ Cardinality(DOMAIN call.value) = Len(ReplyDevices)
       /\ \A device_id \in DOMAIN call.value :
             /\ call.value[device_id].t = "list"
             /\ Len(call.value[device_id].items) = Len(call.classes)
             /\ \A i \in 1..Len(call.classes) :
                   call.value[device_id].items[i] = SuccessValue(call.classes[i], device_id)

C14_Witness ==
    /\ call.op = "send_command_block"
    /\ Answered
    /\ call.classes = <<"LsCommand", "GetCommand">>
    /\ Len(ReplyDevices) = 2
    /\ \A d \in 1..2 : AnswersInOrder(ReplyDevices[d])
    /\ call.outcome = "returned"
    /\ call.value[PyStr(<<"DEV2">>)].items[2] = PyBytes(<<"h", "i">>)

\* C15: in send_command_block, when a device's subtree holds a top-level
\* <error> instead of <commands>, all N command slots of that device are the
\* same ErrorInfo built from that error, the call does not raise, and every
\* other device of the reply is still evaluated and appears in the result.
C15_DeviceErrorFillsEverySlot ==
    (/\ call.op = "send_command_block"
     /\ Answered
     /\ \E d \in 1..Len(ReplyDevices) : HasDeviceError(ReplyDevices[d])
     /\ \A d \in 1..Len(ReplyDevices) :
           HasDeviceError(ReplyDevices[d]) \/ AnswersInOrder(ReplyDevices[d]))
    => /\ call.outcome = "returned"
       /\ DOMAIN call.value = ReplyDeviceIds
       /\ \A d \in 1..Len(ReplyDevices) :
             LET device == ReplyDevices[d]
                 results == call.value[DeviceKey(device)]
             IN /\ results.t = "list"
                /\ Len(results.items) = Len(call.classes)
                /\ \A i \in 1..Len(call.classes) :
                      results.items[i] =
                          IF HasDeviceError(device)
                          THEN ErrorValue(FindPath(device, <<"error">>)[1])
                          ELSE SlotValue(RepliesOf(device)[i], call.classes[i],
                                         DeviceKey(device))

\* C16: send_command_block matches replies to commands by position: a reply
\* element whose tag is not the name of the i-th submitted command is reported
\* as ResponseParseError, not parsed as some other command and not dropped.
C16_RepliesMatchedByPosition ==
    (/\ call.op = "send_command_block"
     /\ Answered
     /\ \A d \in 1..Len(ReplyDevices) : ~HasDeviceError(ReplyDevices[d])
     /\ \E d \in 1..Len(ReplyDevices) :
           \E i \in 1..Len(call.classes) :
              /\ i <= Len(RepliesOf(ReplyDevices[d]))
              /\ RepliesOf(ReplyDevices[d])[i].tag # command_name[call.classes[i]])
    => (call.outcome = "raised" /\ call.exc = "ResponseParseError")

\* the class of the command a one-command operation sends
ClassOf ==
    [list_files |-> "LsCommand", get_file |-> "GetCommand", put_file |-> "PutCommand",
     delete_file |-> "DeleteCommand"]

\* the first reply element of a device with the name of the command (<<>> when
\* there is none)
ReplyTo(device, cls) == FindPath(device, <<"commands", command_name[cls]>>)

\* the subtree of the device, or its reply to the command, holds an <error>
ReportsError(device, cls) ==
    \/ HasDeviceError(device)
    \/ ReplyTo(device, cls) # <<>> /\ HasCommandError(ReplyTo(device, cls)[1])

\* C17: in every map returned by list_files, get_file, put_file and
\* delete_file, each device id of the reply maps to exactly one value, which is
\* either an ErrorInfo or the typed success value of the command (LsInfo, bytes,
\* None), and it is an ErrorInfo exactly when the device subtree or the command
\* reply holds an <error>.
C17_EitherSuccessOrErrorInfo ==
    (call.op \in OneCommandOps /\ Answered /\ call.outcome = "returned") =>
        /\ DOMAIN call.value = ReplyDeviceIds
        /\ \A d \in 1..Len(ReplyDevices) :
              LET device == ReplyDevices[d]
                  v == call.value[DeviceKey(device)]
                  cls == ClassOf[call.op]
              IN /\ v.t \in {"ErrorInfo", SuccessType[cls]}
                 /\ v.t = "ErrorInfo" <=> ReportsError(device, cls)

C17_Witness ==
    /\ call.op = "get_file"
    /\ Answered
    /\ call.outcome = "returned"
    /\ Len(ReplyDevices) = 2
    /\ call.value[PyStr(<<"DEV1">>)].t = "ErrorInfo"
    /\ call.value[PyStr(<<"DEV2">>)] = PyBytes(<<"h", "i">>)

\* every device answered every command of the call in order, with the
\* command's element, and at least one of these elements holds an <error>
OneCommandFailed ==
    /\ Answered
    /\ call.op \in OneCommandOps \cup {"send_command_block"}
    /\ \A d \in 1..Len(ReplyDevices) : AnswersInOrder(ReplyDevices[d])
    /\ \E d \in 1..Len(ReplyDevices) :
          \E i \in 1..Len(call.classes) : HasCommandError(RepliesOf(ReplyDevices[d])[i])

\* C18: a failed command does not affect its siblings.  In list_files,
\* get_file, put_file, delete_file and send_command_block, when a command reply
\* of a device holds an <error>, that slot is an ErrorInfo with the errno and
\* message of the reply, and every other slot of that device and of every other
\* device is what its own reply element determines.
C18_CommandFailureLeavesSiblings ==
    OneCommandFailed =>
        /\ call.outcome = "returned"
        /\ DOMAIN call.value = ReplyDeviceIds
        /\ \A d \in 1..Len(ReplyDevices) :
              LET device == ReplyDevices[d]
                  v == call.value[DeviceKey(device)]
                  slot(i) == SlotValue(RepliesOf(device)[i], call.classes[i],
                                       DeviceKey(device))
              IN IF call.op = "send_command_block"
                 THEN /\ v.t = "list"
                      /\ Len(v.items) = Len(call.classes)
                      /\ \A i \in 1..Len(call.classes) : v.items[i] = slot(i)
                 ELSE v = slot(1)

C18_Witness ==
    /\ OneCommandFailed
    /\ call.op = "send_command_block"
    /\ call.classes = <<"GetCommand", "LsCommand">>
    /\ Len(ReplyDevices) = 2
    /\ call.value[PyStr(<<"DEV1">>)].items[1] =
           ErrorInfo(1, PyStr(<<"No such file or directory">>))
    /\ call.value[PyStr(<<"DEV1">>)].items[2].t = "LsInfo"
    /\ call.value[PyStr(<<"DEV2">>)].items[1] = PyBytes(<<"h", "i">>)

\* a device without a device-level <error> lacks a reply element with the name
\* of a command that was sent
ReplyMissing ==
    \E d \in 1..Len(ReplyDevices) :
       /\ ~HasDeviceError(ReplyDevices[d])
       /\ \E i \in 1..Len(call.classes) : ReplyTo(ReplyDevices[d], call.classes[i]) = <<>>

\* C19: a malformed response is always surfaced as ResponseParseError.  For
\* list_files, get_file, put_file, delete_file and send_command_block, if the
\* reply body is not well-formed XML, or a device subtree without a device-level
\* <error> holds no reply element with the name of the requested command, the
\* call raises ResponseParseError and returns no map.
C19_MalformedReplyRaisesResponseParseError ==
    (/\ call.op \in OneCommandOps \cup {"send_command_block"}
     /\ call.sent # <<>>
     /\ ~call.server.raises
     /\ ~ParseXml(call.server.content).ok \/ ReplyMissing)
    => (call.outcome = "raised" /\ call.exc = "ResponseParseError")

\* C20: a request that reaches no device (the well-formed reply has no <device>
\* under <file_system>) yields an empty map from list_files, get_file,
\* put_file, delete_file, send_command_block, get_modified_items and exists, and
\* none of them raises.
C20_NoDeviceGivesEmptyMap ==
    (/\ call.op \in OneCommandOps \cup {"send_command_block", "get_modified_items", "exists"}
     /\ call.sent # <<>>
     /\ call.server = FssReply(<<>>))
    => (call.outcome = "returned" /\ call.value = EmptyDict)

C20_Witness ==
    /\ call.op = "exists"
    /\ call.sent # <<>>
    /\ call.server = FssReply(<<>>)
    /\ call.outcome = "returned"
    /\ call.value = EmptyDict

RECURSIVE StrictlyNewer(_, _)
\* the entries of a listing whose last_modified is greater than the cutoff, in
\* their order
StrictlyNewer(items, cutoff) ==
    IF items = <<>> THEN <<>>
    ELSE (IF Head(items).last_modified.n > cutoff.n THEN <<Head(items)>> ELSE <<>>)
         \o StrictlyNewer(Tail(items), cutoff)

\* what list_files returns for the request and the reply of the call
ListingOfCall == list_files(call.target, APath, PyStr(<<"any">>), call.server)

\* C21: get_modified_items returns a map with exactly the device keys that
\* list_files returned; a device whose listing is an ErrorInfo maps to that same
\* ErrorInfo, and any other device maps to an LsInfo with exactly the files and
\* directories of its listing whose last_modified is strictly greater than the
\* cutoff, in their original order.
C21_ModifiedItemsFilterTheListing ==
    (call.op = "get_modified_items" /\ ListingOfCall.outcome = "returned") =>
        /\ call.outcome = "returned"
        /\ DOMAIN call.value = DOMAIN ListingOfCall.value
        /\ \A d \in DOMAIN call.value :
              LET listed == ListingOfCall.value[d] IN
              IF listed.t = "ErrorInfo" THEN call.value[d] = listed
              ELSE call.value[d] = LsInfo(StrictlyNewer(listed.directories, call.cutoff),
                                          StrictlyNewer(listed.files, call.cutoff))

C21_Witness ==
    /\ call.op = "get_modified_items"
    /\ call.cutoff = PyInt(10)
    /\ call.outcome = "returned"
    /\ DOMAIN call.value = {PyStr(<<"DEV1">>), PyStr(<<"DEV2">>)}
    /\ call.value[PyStr(<<"DEV1">>)].t = "ErrorInfo"
    /\ call.value[PyStr(<<"DEV2">>)].t = "LsInfo"
    /\ Len(call.value[PyStr(<<"DEV2">>)].files) = 1
    /\ call.value[PyStr(<<"DEV2">>)].files[1].path = PyStr(<<"/", "a", "/", "path", "/", "file2.py">>)
    /\ Len(call.value[PyStr(<<"DEV2">>)].directories) = 1

\* the path with one trailing separator removed
WithoutTrailingSeparator(chunks) ==
    IF chunks # <<>> /\ chunks[Len(chunks)] = "/" THEN SubSeq(chunks, 1, Len(chunks) - 1)
    ELSE chunks

\* the part of a path after its last separator
LeafName(chunks) == SubSeq(chunks, LastSeparator(chunks, "/") + 1, Len(chunks))

\* the part of a path before its last separator
ParentOf(chunks) == SubSeq(chunks, 1, LastSeparator(chunks, "/") - 1)

\* what list_files returns for the parent directory of the path of the call
ParentListing ==
    list_files(call.target, PyStr(ParentOf(WithoutTrailingSeparator(call.path.s))),
               PyStr(<<"any">>), call.server)

\* some file or directory of the listing has the leaf name of the path
LeafListed(listed, chunks) ==
    \E entry \in {listed.files[i] : i \in 1..Len(listed.files)}
                 \cup {listed.directories[i] : i \in 1..Len(listed.directories)} :
       Join(LeafName(entry.path.s)) = Join(LeafName(chunks))

\* C22: exists(target, path) lists the parent directory of path once and, for
\* each device of the listing, returns the ErrorInfo unchanged if the listing
\* failed, True if some file or directory of the parent listing matches the leaf
\* name of path, and False otherwise; a path with one trailing separator gives
\* the result of the path without it.
C22_ExistsScansParentForLeafName ==
    (call.op = "exists" /\ call.sent # <<>>) =>
        /\ call.sent = ParentListing.sent
        /\ Len(call.sent) = 1
        /\ ParentListing.outcome = "returned" =>
              /\ call.outcome = "returned"
              /\ DOMAIN call.value = DOMAIN ParentListing.value
              /\ \A d \in DOMAIN call.value :
                    LET listed == ParentListing.value[d] IN
                    IF listed.t = "ErrorInfo" THEN call.value[d] = listed
                    ELSE call.value[d] =
                            PyBool(LeafListed(listed, WithoutTrailingSeparator(call.path.s)))
        /\ call.path.s = WithoutTrailingSeparator(call.path.s) =>
              LET slashed == exists(call.target, PyStr(call.path.s \o <<"/">>), call.server)
              IN slashed.outcome = call.outcome /\ slashed.value = call.value

\* C27: a read of `completed` that fails (the transport raises on the GET, or
\* the polled body is not well-formed XML) propagates the exception and leaves
\* the proxy unchanged: job_id keeps its value and response stays None; a later
\* read polls again and can still observe completion.
C27_FailedReadLeavesProxyPending ==
    [][ReadStep =>
          /\ (~AlreadyComplete(proxy)
              /\ (call'.server.raises \/ ~ParseXml(call'.server.content).ok)) =>
                 /\ call'.outcome = "raised"
                 /\ call'.exc \in {"DeviceCloudHttpException", "ParseError"}
                 /\ proxy' = proxy
                 /\ proxy'.response = <<>>
          /\ (hist.failed /\ proxy.response = <<>>) =>
                 /\ call'.sent = <<PollRequest(proxy.job_id)>>
                 /\ (~call'.server.raises /\ ParseXml(call'.server.content).ok
                     /\ call'.server.says = "complete") =>
                        /\ call'.outcome = "returned"
                        /\ call'.value = PyBool(TRUE)
                        /\ proxy'.job_id = proxy.job_id
                        /\ proxy'.response = <<call'.server.content>>]_vars

\* a read completes the proxy after an earlier read of it failed
C27_Witness ==
    /\ hist.failed
    /\ call.op = "completed"
    /\ call.before = <<>>
    /\ call.outcome = "returned"
    /\ call.value = PyBool(TRUE)
    /\ proxy.response = <<call.server.content>>

-----------------------------------------------------------------------------
(* devicecloud/__init__.py: DeviceCloudConnection.  `call` holds the request *)
(* or the iteration in progress; `trace` is what the session and time.sleep  *)
(* were asked to do, in order.  Delays are counted in sixteenths of a        *)
(* second, and a coefficient is a fraction, so that 1.0 s and 1.5 are exact. *)

SUCCESSFUL_STATUS_CODES == {200, 201, 202, 204, 207}

HTTP_THROTTLED_CODES == {429}

\* the status codes the cloud answers with
StatusCodes == SUCCESSFUL_STATUS_CODES \cup HTTP_THROTTLED_CODES \cup {400, 500}

DEFAULT_THROTTLE_RETRIES == MaxRetries
DEFAULT_THROTTLE_DELAY_INIT == 16
DEFAULT_THROTTLE_DELAY_MAX == 160
DEFAULT_THROTTLE_DELAY_BACKOFF_COEFFICIENT == [num |-> 3, den |-> 2]

Min(a, b) == IF a <= b THEN a ELSE b

\* kwargs.pop(name, default)
Pop(kwargs, name, default) == IF name \in DOMAIN kwargs THEN kwargs[name] ELSE default

\* the delay is multiplied without the cap
NextDelayUncapped(retry_delay, coefficient, throttle_delay_max) ==
    (retry_delay * coefficient.num) \div coefficient.den

\* min(retry_delay * throttle_delay_backoff_coefficient, throttle_delay_max)
NextDelay(retry_delay, coefficient, throttle_delay_max) ==
    Min((retry_delay * coefficient.num) \div coefficient.den, throttle_delay_max)

\* a server error counts as throttling too
ThrottledOrServerError(status_code) == status_code \in HTTP_THROTTLED_CODES \cup {500}

\* response.status_code in HTTP_THROTTLED_CODES
Throttled(status_code) == status_code \in HTTP_THROTTLED_CODES

\* the keyword arguments of a request that choose the number of retries
RetryKwargs ==
    {[n \in {} |-> 0]}
    \cup {[n \in {"retries"} |-> r] : r \in {0, MaxRetries}}
    \cup {[n \in {"throttle_retries"} |-> 1]}
    \cup {[n \in {"throttle_retries", "retries"} |-> IF n = "retries" THEN 0 ELSE 2]}

\* the delays a connection is built with or a request overrides
DelayInits == {DEFAULT_THROTTLE_DELAY_INIT, 32}
DelayMaxes == {48, DEFAULT_THROTTLE_DELAY_MAX}
Coefficients == {[num |-> 1, den |-> 1], DEFAULT_THROTTLE_DELAY_BACKOFF_COEFFICIENT,
                 [num |-> 2, den |-> 1]}

\* _make_request(method, url, **kwargs) up to the loop
MakeRequest ==
    /\ call = NoCall
    /\ \E kwargs \in RetryKwargs, throttle_delay_init \in DelayInits,
          throttle_delay_max \in DelayMaxes, coefficient \in Coefficients :
          LET throttle_retries ==
                  Pop(kwargs, "throttle_retries",
                      Pop(kwargs, "retries", DEFAULT_THROTTLE_RETRIES))
          IN call' = [op |-> "_make_request", pc |-> "loop",
                      throttle_retries |-> throttle_retries,
                      throttle_delay_init |-> throttle_delay_init,
                      throttle_delay_max |-> throttle_delay_max,
                      coefficient |-> coefficient,
                      remaining_attempts |-> throttle_retries + 1,
                      retry_delay |-> throttle_delay_init,
                      trace |-> <<>>, outcome |-> "running", exc |-> "", value |-> None]
    /\ UNCHANGED <<py3, dev, dc, proxy, hist, th>>

\* one turn of the loop: the session's request and what its status leads to
SessionRequest ==
    /\ call.op = "_make_request"
    /\ call.pc = "loop"
    /\ \E status_code \in StatusCodes :
          LET response == [status_code |-> status_code]
              requested == [call EXCEPT !.trace = Append(@, [e |-> "request",
                                                             status_code |-> status_code])]
              raised == [requested EXCEPT !.pc = "done", !.outcome = "raised",
                                          !.exc = "DeviceCloudHttpException",
                                          !.value = response]
          IN call' =
               IF status_code \in SUCCESSFUL_STATUS_CODES
               THEN [requested EXCEPT !.pc = "done", !.outcome = "returned",
                                      !.value = response]
               ELSE IF Throttled(status_code)
               THEN IF call.remaining_attempts - 1 > 0
                    THEN [requested EXCEPT !.remaining_attempts = @ - 1, !.pc = "sleep"]
                    ELSE [raised EXCEPT !.remaining_attempts = @ - 1]
               ELSE raised
    /\ UNCHANGED <<py3, dev, dc, proxy, hist, th>>

\* time.sleep(retry_delay), and the delay of the next retry
Sleep ==
    /\ call.op = "_make_request"
    /\ call.pc = "sleep"
    /\ call' = [call EXCEPT !.trace = Append(@, [e |-> "sleep", delay |-> call.retry_delay]),
                            !.retry_delay = NextDelay(@, call.coefficient,
                                                      call.throttle_delay_max),
                            !.pc = "loop"]
    /\ UNCHANGED <<py3, dev, dc, proxy, hist, th>>

\* dict.update: the entries of `other` are added to, or replace, those of d
Update(d, other) ==
    [k \in DOMAIN d \cup DOMAIN other |-> IF k \in DOMAIN other THEN other[k] ELSE d[k]]

\* the extra query parameters of the caller: none, some of the unit test, one
\* with the name of a paging parameter
ExtraParams ==
    {[k \in {} |-> None],
     [k \in {"foo", "key"} |-> IF k = "foo" THEN PyStr(<<"bar">>) ELSE PyStr(<<"value">>)],
     [k \in {"start"} |-> PyInt(5)]}

PageSizes == {1, 2}

\* the JSON pages the cloud may answer with: up to two items, numbered by page
\* and place, and a remainingSize that is absent, "0" or "1"
JsonPages(n) ==
    {[items |-> [i \in 1..k |-> <<n, i>>]] : k \in 0..2}
    \cup {[items |-> [i \in 1..k |-> <<n, i>>], remainingSize |-> r] :
             k \in 0..2, r \in {PyStr(<<"0">>), PyStr(<<"1">>)}}

\* response.get(name, default)
JsonGet(response, name, default) ==
    IF name \in DOMAIN response THEN response[name] ELSE default

\* iter_json_pages(path, page_size, **params): the generator before its first
\* next()
IterJsonPages ==
    /\ call = NoCall
    /\ \E page_size \in PageSizes, params \in ExtraParams :
          call' = [op |-> "iter_json_pages", pc |-> "while", page_size |-> page_size,
                   params |-> params, offset |-> 0, remaining_size |-> 1,
                   items |-> <<>>, requests |-> <<>>, pages |-> <<>>, yielded |-> <<>>,
                   outcome |-> "running", exc |-> "", value |-> None]
    /\ UNCHANGED <<py3, dev, dc, proxy, hist, th>>

\* the head of the while loop when remaining_size > 0: one get_json, which
\* returns a page or raises what _make_request raised
GetJsonPage ==
    /\ call.op = "iter_json_pages"
    /\ call.pc = "while"
    /\ call.remaining_size > 0
    /\ LET reqparams == Update([k \in {"start", "size"} |->
                                   IF k = "start" THEN PyInt(call.offset)
                                   ELSE PyInt(call.page_size)],
                               call.params)
           asked == [call EXCEPT !.requests = Append(@, reqparams)]
       IN \/ call' = [asked EXCEPT !.pc = "done", !.outcome = "raised",
                                   !.exc = "DeviceCloudHttpException"]
          \/ \E response \in JsonPages(Len(call.requests) + 1) :
                /\ Len(call.requests) + 1 = MaxPages =>
                      PyIntOf(JsonGet(response, "remainingSize", PyStr(<<"0">>)).s).n = 0
                /\ call' = [asked EXCEPT
                               !.offset = @ + call.page_size,
                               !.remaining_size =
                                   PyIntOf(JsonGet(response, "remainingSize",
                                                   PyStr(<<"0">>)).s).n,
                               !.items = JsonGet(response, "items", <<>>),
                               !.pages = Append(@, response),
                               !.pc = "for"]
    /\ UNCHANGED <<py3, dev, dc, proxy, hist, th>>

\* the for loop over the items of the page: yield the next one
YieldItem ==
    /\ call.op = "iter_json_pages"
    /\ call.pc = "for"
    /\ call.items # <<>>
    /\ call' = [call EXCEPT !.yielded = Append(@, Head(call.items)), !.items = Tail(@)]
    /\ UNCHANGED <<py3, dev, dc, proxy, hist, th>>

\* the for loop is exhausted: back to the head of the while loop
PageConsumed ==
    /\ call.op = "iter_json_pages"
    /\ call.pc = "for"
    /\ call.items = <<>>
    /\ call' = [call EXCEPT !.pc = "while"]
    /\ UNCHANGED <<py3, dev, dc, proxy, hist, th>>

\* the while loop ends: the generator is exhausted
StopIteration ==
    /\ call.op = "iter_json_pages"
    /\ call.pc = "while"
    /\ call.remaining_size <= 0
    /\ call' = [call EXCEPT !.pc = "done", !.outcome = "returned"]
    /\ UNCHANGED <<py3, dev, dc, proxy, hist, th>>

\* the caller takes the result of a finished call
ConnectionReturn ==
    /\ call.op \in {"_make_request", "iter_json_pages"}
    /\ call.pc = "done"
    /\ call' = NoCall
    /\ UNCHANGED <<py3, dev, dc, proxy, hist, th>>

ConnectionNext ==
    \/ MakeRequest
    \/ SessionRequest
    \/ Sleep
    \/ IterJsonPages
    \/ GetJsonPage
    \/ YieldItem
    \/ PageConsumed
    \/ StopIteration
    \/ ConnectionReturn

SpecConnection == EnvelopeInit /\ [][ConnectionNext]_vars

-----------------------------------------------------------------------------
(* Properties of DeviceCloudConnection *)

\* the places of the trace where the session was asked, and where time.sleep was
Attempts == {i \in 1..Len(call.trace) : call.trace[i].e = "request"}
Sleeps == {i \in 1..Len(call.trace) : call.trace[i].e = "sleep"}

\* the request is over and every response to it was throttled
AlwaysThrottled ==
    /\ call.op = "_make_request"
    /\ call.pc = "done"
    /\ \A i \in Attempts : call.trace[i].status_code = 429

\* C23: when every response to a request has the throttled status 429 and the
\* retry count is R, _make_request makes exactly R+1 attempts and then raises
\* DeviceCloudHttpException; it sleeps exactly R times, once between consecutive
\* attempts and not after the last one, the first delay being the initial delay
\* and each later delay the previous one times the backoff coefficient, capped
\* at the maximum delay.
C23_ThrottledRequestRetriesWithBackoff ==
    AlwaysThrottled =>
        LET R == call.throttle_retries IN
        /\ call.outcome = "raised"
        /\ call.exc = "DeviceCloudHttpException"
        /\ Cardinality(Attempts) = R + 1
        /\ Cardinality(Sleeps) = R
        /\ Len(call.trace) = 2 * R + 1
        /\ \A i \in 1..Len(call.trace) : (i \in Sleeps) <=> (i % 2 = 0)
        /\ R > 0 => call.trace[2].delay = call.throttle_delay_init
        /\ \A k \in 2..R :
              call.trace[2 * k].delay =
                  Min((call.trace[2 * k - 2].delay * call.coefficient.num)
                          \div call.coefficient.den,
                      call.throttle_delay_max)

\* three retries with the default delays: 1 s, 1.5 s, 2.25 s
C23_Witness ==
    /\ AlwaysThrottled
    /\ call.throttle_retries = 3
    /\ call.outcome = "raised"
    /\ Len(call.trace) = 7
    /\ call.trace[2].delay = 16
    /\ call.trace[4].delay = 24
    /\ call.trace[6].delay = 36

RECURSIVE ItemsOf(_)
\* the items of the pages, one page after the other
ItemsOf(pages) ==
    IF pages = <<>> THEN <<>> ELSE Head(pages).items \o ItemsOf(Tail(pages))

\* the page says that nothing remains: its remainingSize is 0 or absent
LastPage(page) ==
    "remainingSize" \notin DOMAIN page \/ page.remainingSize = PyStr(<<"0">>)

-----------------------------------------------------------------------------
(* More properties of the file system service *)

\* a device of the reply has a top-level <error>, and every device without one
\* answered the command of the call
SomeDeviceFailed ==
    /\ call.op \in OneCommandOps
    /\ Answered
    /\ \E d \in 1..Len(ReplyDevices) : HasDeviceError(ReplyDevices[d])
    /\ \A d \in 1..Len(ReplyDevices) :
          HasDeviceError(ReplyDevices[d]) \/ AnswersInOrder(ReplyDevices[d])

\* C25: in list_files, get_file, put_file and delete_file a device whose subtree
\* has a top-level <error> is mapped to the ErrorInfo of that error without its
\* <commands> being looked up or parsed, and the remaining devices of the same
\* reply are processed as usual.
C25_DeviceErrorSkipsItsCommands ==
    SomeDeviceFailed =>
        /\ call.outcome = "returned"
        /\ DOMAIN call.value = ReplyDeviceIds
        /\ \A d \in 1..Len(ReplyDevices) :
              LET device == ReplyDevices[d] IN
              call.value[DeviceKey(device)] =
                 IF HasDeviceError(device)
                 THEN ErrorValue(FindPath(device, <<"error">>)[1])
                 ELSE SlotValue(RepliesOf(device)[1], ClassOf[call.op], DeviceKey(device))

\* the first device has an <error> and a <commands> with the file, the second
\* device only the file
C25_Witness ==
    /\ SomeDeviceFailed
    /\ call.op = "get_file"
    /\ Len(ReplyDevices) = 2
    /\ HasDeviceError(ReplyDevices[1])
    /\ FindPath(ReplyDevices[1], <<"commands", "get_file">>) # <<>>
    /\ call.value[PyStr(<<"DEV1">>)] = ErrorInfo(2001, PyStr(<<"Device Not Connected">>))
    /\ call.value[PyStr(<<"DEV2">>)] = PyBytes(<<"h", "i">>)

\* the commands a call puts into its block
CommandsOfCall ==
    CASE call.op = "list_files" -> <<LsCommand(APath, call.hash)>>
      [] call.op = "get_file" -> <<GetCommand(APath, call.offset, call.length)>>
      [] call.op = "put_file" ->
           <<PutCommand(APath, call.file_data, call.server_file, None, PyBool(FALSE)).value>>
      [] call.op = "delete_file" -> <<DeleteCommand(APath)>>
      [] call.op = "send_command_block" ->
           [i \in 1..Len(call.classes) |-> SampleCommand(call.classes[i])]
      [] call.op = "get_modified_items" -> <<LsCommand(APath, PyStr(<<"any">>))>>
      [] call.op = "exists" ->
           <<LsCommand(PyStr(ParentOf(WithoutTrailingSeparator(call.path.s))),
                       PyStr(<<"any">>))>>

\* the arguments of the call are of the kind the operation accepts: put_file is
\* given exactly one of file_data and server_file, exists a path with a parent
ArgumentsAccepted ==
    /\ call.op \in OneCommandOps \cup {"send_command_block", "get_modified_items", "exists"}
    /\ call.op = "put_file" => ExactlyOneGiven
    /\ call.op = "exists" =>
          LastSeparator(WithoutTrailingSeparator(call.path.s), "/") # 0

\* C26: each call of list_files, get_file, put_file, delete_file,
\* send_command_block, get_modified_items and exists performs exactly one
\* send_sci call, with operation "file_system", the caller's target unchanged
\* and the serialized command block as payload; the call is not repeated
\* whatever the reply holds (device errors, command errors, a parse failure).
C26_OneSendSciPerCall ==
    ArgumentsAccepted =>
        /\ Len(call.sent) = 1
        /\ call.sent = send_sci(PyStr(<<"file_system">>), call.target,
                                CommandString(CommandsOfCall), BindOptions(EmptyDict),
                                call.server).sent

\* the reply could not be parsed, and the block was sent once
C26_Witness ==
    /\ ArgumentsAccepted
    /\ call.op = "exists"
    /\ call.outcome = "raised"
    /\ call.exc = "ResponseParseError"
    /\ Len(call.sent) = 1

-----------------------------------------------------------------------------
(* devicecloud/devicecore.py: Device.  dev._device_json is the cache of the  *)
(* object, dev.cloud the JSON the cloud would answer a GET of the device     *)
(* with.                                                                     *)

\* the JSON of one device, as much of it as the getters below read
DeviceJson(grpPath, dpDeviceType) ==
    [t |-> "dict", id |-> [devId |-> "702077"],
     devConnectwareId |-> "00000000-00000000-00409DFF-FF58175B",
     grpPath |-> grpPath, dpDeviceType |-> dpDeviceType]

GroupPaths == {"", "testgrp", "other"}
DeviceTypes == {"ConnectPort X5 R", "Turboencabulator"}

\* the result of a step inside a method of Device: how it ends, what it
\* evaluates to, the cache afterwards and the requests made
DeviceStep(outcome, exc, value, device_json, sent) ==
    [outcome |-> outcome, exc |-> exc, value |-> value, device_json |-> device_json,
     sent |-> sent]

\* get_device_json(use_cached=True): nothing is fetched
CachedDeviceJson(d) == DeviceStep("returned", "", d._device_json, d._device_json, <<>>)

\* get_device_id(): device_json["id"].get("devId") on the cached JSON
get_device_id(d) ==
    IF IsNone(d._device_json)
    THEN DeviceStep("raised", "TypeError", None, d._device_json, <<>>)
    ELSE DeviceStep("returned", "", d._device_json.id.devId, d._device_json, <<>>)

\* get_device_json(use_cached); `fails` when the GET of the device fails
get_device_json(d, use_cached, fails) ==
    IF use_cached THEN CachedDeviceJson(d)
    ELSE LET device_id == get_device_id(d) IN
         IF device_id.outcome = "raised" THEN device_id
         ELSE LET get == Request("GET", "/ws/DeviceCore/" \o device_id.value, <<>>) IN
              IF fails
              THEN DeviceStep("raised", "DeviceCloudHttpException", None, d._device_json,
                              <<get>>)
              ELSE DeviceStep("returned", "", d.cloud, d.cloud, <<get>>)

\* a getter: self.get_device_json(use_cached).get(key)
DeviceGet(d, key, use_cached, fails) ==
    LET device_json == get_device_json(d, use_cached, fails) IN
    IF device_json.outcome = "raised" THEN device_json
    ELSE IF IsNone(device_json.value)
    THEN [device_json EXCEPT !.outcome = "raised", !.exc = "AttributeError", !.value = None]
    ELSE [device_json EXCEPT !.value = device_json.value[key]]

\* add_to_group(group_path); remove_from_group() is add_to_group('') with the
\* same body.  `fails` when the PUT fails; `value` is the record the cloud has
\* of the device after the call.
add_to_group(d, group_path, fails) ==
    LET current == DeviceGet(d, "grpPath", TRUE, FALSE) IN
    IF current.outcome = "raised" THEN [current EXCEPT !.value = d.cloud]
    ELSE IF current.value = group_path
    THEN DeviceStep("returned", "", d.cloud, d._device_json, <<>>)
    ELSE LET put == Request("PUT", "/ws/DeviceCore",
                            <<"<DeviceCore><devConnectwareId>",
                              d._device_json.devConnectwareId,
                              "</devConnectwareId><grpPath>", group_path,
                              "</grpPath></DeviceCore>">>)
         IN IF fails
            THEN DeviceStep("raised", "DeviceCloudHttpException", d.cloud, d._device_json,
                            <<put>>)
            ELSE DeviceStep("returned", "", [d.cloud EXCEPT !.grpPath = group_path], None,
                            <<put>>)

\* the getters of the model: get_group_path and get_device_type
GetterKeys == [get_group_path |-> "grpPath", get_device_type |-> "dpDeviceType"]

\* device.get_group_path(use_cached) or device.get_device_type(use_cached)
Getter ==
    /\ call = NoCall
    /\ \E name \in DOMAIN GetterKeys, use_cached \in BOOLEAN, fails \in BOOLEAN :
          LET r == DeviceGet(dev, GetterKeys[name], use_cached, fails) IN
          /\ call' = [op |-> "getter", name |-> name, use_cached |-> use_cached,
                      fails |-> fails, before |-> dev._device_json, cloud |-> dev.cloud,
                      outcome |-> r.outcome, exc |-> r.exc, value |-> r.value,
                      sent |-> r.sent]
          /\ dev' = [dev EXCEPT !._device_json = r.device_json]
    /\ UNCHANGED <<py3, proxy, hist, th, dc>>

\* device.add_to_group(group_path)
AddToGroup ==
    /\ call = NoCall
    /\ \E group_path \in GroupPaths \ {""}, fails \in BOOLEAN :
          LET r == add_to_group(dev, group_path, fails) IN
          /\ call' = [op |-> "add_to_group", group_path |-> group_path, fails |-> fails,
                      before |-> dev._device_json, cloud |-> dev.cloud,
                      outcome |-> r.outcome, exc |-> r.exc, value |-> None,
                      sent |-> r.sent]
          /\ dev' = [dev EXCEPT !._device_json = r.device_json, !.cloud = r.value]
    /\ UNCHANGED <<py3, proxy, hist, th, dc>>

\* device.remove_from_group()
RemoveFromGroup ==
    /\ call = NoCall
    /\ \E fails \in BOOLEAN :
          LET r == add_to_group(dev, "", fails) IN
          /\ call' = [op |-> "remove_from_group", group_path |-> "", fails |-> fails,
                      before |-> dev._device_json, cloud |-> dev.cloud,
                      outcome |-> r.outcome, exc |-> r.exc, value |-> None,
                      sent |-> r.sent]
          /\ dev' = [dev EXCEPT !._device_json = r.device_json, !.cloud = r.value]
    /\ UNCHANGED <<py3, proxy, hist, th, dc>>

\* the cloud learns another type of the device
CloudChanges ==
    /\ call = NoCall
    /\ \E dpDeviceType \in DeviceTypes \ {dev.cloud.dpDeviceType} :
          dev' = [dev EXCEPT !.cloud.dpDeviceType = dpDeviceType]
    /\ UNCHANGED <<py3, call, proxy, hist, th, dc>>

\* the caller takes the result of a call on the device
DeviceReturn ==
    /\ call # NoCall
    /\ call' = NoCall
    /\ UNCHANGED <<py3, proxy, hist, th, dev, dc>>

\* a Device as DeviceCoreAPI.get_devices yields it: built from the JSON of the
\* listing
DeviceInit ==
    /\ py3 \in BOOLEAN
    /\ call = NoCall
    /\ proxy = NoProxy
    /\ hist = NoHist
    /\ th = <<>>
    /\ \E grpPath \in GroupPaths :
          dev = [exists |-> TRUE, _device_json |-> DeviceJson(grpPath, "ConnectPort X5 R"),
                 cloud |-> DeviceJson(grpPath, "ConnectPort X5 R")]
    /\ dc = NoDeviceCloud

DeviceNext == Getter \/ AddToGroup \/ RemoveFromGroup \/ CloudChanges \/ DeviceReturn

SpecDevice == DeviceInit /\ [][DeviceNext]_vars

\* the Device was changed by a PUT: its cache is None
Invalidated == IsNone(call.before)

\* C29: for a Device, after any sequence of getter calls, add_to_group and
\* remove_from_group: a getter called with use_cached=False fetches the JSON of
\* the device from the cloud and replaces the cache, a getter with
\* use_cached=True returns data of the last fetch, and after add_to_group or
\* remove_from_group has sent its PUT (which invalidates the cache) the next
\* getter call succeeds and returns freshly fetched data, not the data from
\* before the change.
C29_GettersFetchOrUseTheCache ==
    call.op = "getter" =>
        LET key == GetterKeys[call.name] IN
        /\ (~call.use_cached /\ ~call.fails) =>
              /\ call.outcome = "returned"
              /\ Len(call.sent) = 1
              /\ call.value = call.cloud[key]
              /\ dev._device_json = call.cloud
        /\ (call.use_cached /\ ~Invalidated) =>
              /\ call.outcome = "returned"
              /\ call.sent = <<>>
              /\ call.value = call.before[key]
        /\ (Invalidated /\ ~call.fails) =>
              /\ call.outcome = "returned"
              /\ call.value = call.cloud[key]

-----------------------------------------------------------------------------
(* devicecloud/__init__.py: DeviceCloud.  dc.attrs holds the attributes of   *)
(* the object that cache its API objects; an object is known by the number   *)
(* dc.made had when it was created.                                          *)

\* the attributes DeviceCloud.__init__ assigns, all None
InitialAttributes ==
    [a \in {"_streams_api", "_filedata_api", "_devicecore_api", "_sci_api",
            "_monitor_api", "_legacy_api"} |-> None]

\* the attribute each property caches its object in
PropertyAttribute ==
    [streams |-> "_streams_api", filedata |-> "_filedata_api",
     devicecore |-> "_devicecore_api", sci |-> "_sci_api",
     file_system_service |-> "_fss_api", monitor |-> "_monitor_api"]

\* the method each property creates its object with
PropertyGetter ==
    [streams |-> "get_streams_api", filedata |-> "get_filedata_api",
     devicecore |-> "get_devicecore_api", sci |-> "get_sci_api",
     file_system_service |-> "get_fss_api", monitor |-> "get_monitor_api"]

\* the result of a method of DeviceCloud: how it ends, what it returns, the
\* object afterwards
CloudStep(outcome, exc, value, d) == [outcome |-> outcome, exc |-> exc, value |-> value, d |-> d]

\* cls(...): a new object; sci_api is the number of the SCI API object handed
\* to its constructor, 0 when there is none
New(d, cls, sci_api) ==
    CloudStep("returned", "",
              [t |-> "object", cls |-> cls, id |-> d.made + 1, sci_api |-> sci_api],
              [d EXCEPT !.made = @ + 1])

\* the body of a property: `if self._x is None: self._x = self.get_x(); return
\* self._x`, where `created` is what get_x() does
CachedProperty(d, attribute, created) ==
    IF attribute \notin DOMAIN d.attrs
    THEN CloudStep("raised", "AttributeError", None, d)
    ELSE IF IsNone(d.attrs[attribute])
    THEN IF created.outcome = "raised" THEN created
         ELSE [created EXCEPT !.d.attrs[attribute] = created.value]
    ELSE CloudStep("returned", "", d.attrs[attribute], d)

get_sci_api(d) == New(d, "ServerCommandInterfaceAPI", 0)

\* the property DeviceCloud.sci
SciProperty(d) == CachedProperty(d, "_sci_api", get_sci_api(d))

\* get_streams_api(), get_filedata_api(), get_devicecore_api(), get_sci_api(),
\* get_fss_api() and get_monitor_api()
GetApi(d, name) ==
    CASE name = "get_streams_api" -> New(d, "StreamsAPI", 0)
      [] name = "get_filedata_api" -> New(d, "FileDataAPI", 0)
      [] name = "get_devicecore_api" ->
           LET sci_api == get_sci_api(d) IN New(sci_api.d, "DeviceCoreAPI", sci_api.value.id)
      [] name = "get_sci_api" -> get_sci_api(d)
      [] name = "get_fss_api" ->
           LET sci_api == SciProperty(d) IN
           IF sci_api.outcome = "raised" THEN sci_api
           ELSE New(sci_api.d, "FileSystemServiceAPI", sci_api.value.id)
      [] name = "get_monitor_api" -> New(d, "MonitorAPI", 0)

\* the properties streams, filedata, devicecore, sci, file_system_service and
\* monitor
Property(d, name) == CachedProperty(d, PropertyAttribute[name], GetApi(d, PropertyGetter[name]))

\* a read of one of the service properties
ReadProperty ==
    /\ call = NoCall
    /\ dc.made + 2 <= MaxObjects
    /\ \E name \in DOMAIN PropertyAttribute :
          LET r == Property(dc, name) IN
          /\ call' = [op |-> "property", name |-> name, before |-> dc,
                      outcome |-> r.outcome, exc |-> r.exc, value |-> r.value]
          /\ dc' = r.d
    /\ UNCHANGED <<py3, proxy, hist, th, dev>>

\* a call of one of the get_*_api methods
CallGetApi ==
    /\ call = NoCall
    /\ dc.made + 2 <= MaxObjects
    /\ \E name \in {PropertyGetter[p] : p \in DOMAIN PropertyGetter} :
          LET r == GetApi(dc, name) IN
          /\ call' = [op |-> "get_api", name |-> name, before |-> dc,
                      outcome |-> r.outcome, exc |-> r.exc, value |-> r.value]
          /\ dc' = r.d
    /\ UNCHANGED <<py3, proxy, hist, th, dev>>

\* the caller takes the result of a call on the DeviceCloud
CloudReturn ==
    /\ call.op \in {"property", "get_api"}
    /\ call' = NoCall
    /\ UNCHANGED <<py3, proxy, hist, th, dev, dc>>

\* DeviceCloud(username, password)
CloudInit ==
    /\ py3 \in BOOLEAN
    /\ call = NoCall
    /\ proxy = NoProxy
    /\ hist = NoHist
    /\ th = <<>>
    /\ dev = NoDevice
    /\ dc = [exists |-> TRUE, attrs |-> InitialAttributes, made |-> 0]

CloudNext == ReadProperty \/ CallGetApi \/ CloudReturn

SpecCloud == CloudInit /\ [][CloudNext]_vars

\* the objects the DeviceCloud d has cached
CachedObjects(d) == {d.attrs[a] : a \in DOMAIN d.attrs} \ {None}

\* C30: each service property of a freshly constructed DeviceCloud (streams,
\* filedata, devicecore, sci, file_system_service, monitor) creates its API
\* object on first access and returns that identical object on every later
\* access, in any order of accesses, whereas each get_*_api() call returns a new
\* object.
C30_PropertiesCacheAndGettersCreate ==
    /\ call.op = "property" =>
          LET attribute == PropertyAttribute[call.name] IN
          /\ call.outcome = "returned"
          /\ call.value.t = "object"
          /\ dc.attrs[attribute] = call.value
          /\ IF IsNone(call.before.attrs[attribute])
             THEN call.value.id > call.before.made
             ELSE call.value = call.before.attrs[attribute]
    /\ call.op = "get_api" =>
          /\ call.outcome = "returned"
          /\ call.value.t = "object"
          /\ call.value.id > call.before.made
          /\ call.value \notin CachedObjects(dc)

====
